---- MODULE Spec2Model ----
(***************************************************************************)
(* Model of the asciidesmos compiler's weak type kernel                     *)
(* (compiler/src/types.rs), its builtin table (compiler/src/builtins.rs)    *)
(* and the statement/call lowering that drives them.                        *)
(*                                                                          *)
(* Three specifications share the module:                                   *)
(*   SpecTyp     - the pure functions of types.rs applied to drawn inputs   *)
(*   SpecCall    - one call site: resolution, arity and slot checking       *)
(*   SpecCompile - a statement list compiled in order against a Context     *)
(***************************************************************************)
EXTENDS Integers, Sequences, FiniteSets, TLC

VARIABLES
    types,      \* SpecTyp: the drawn input, a sequence of (Span, Typ, TypInfo)
    op,         \* SpecTyp: the function applied last ("none" before any)
    arg,        \* SpecTyp: the arguments it was applied to
    ret,        \* SpecTyp: what it returned
    ctx,        \* the Context statements and calls are compiled against
    call,       \* SpecCall: the drawn call site (name, span, lowered arguments)
    cret,       \* SpecCall: None, or Some(result of compiling the call)
    prog,       \* SpecCompile: the statement list handed to compile_stmts
    pc,         \* SpecCompile: index of the next statement to compile
    out,        \* SpecCompile: the result of every statement compiled so far
    err,        \* SpecCompile: None, or Some(error compile_stmts returned)
    state,      \* SpecLsp: main_loop's State, None or Some(StateVal)
    loop,       \* SpecLsp: "off", "running", or what main_loop returned
    msg,        \* SpecLsp: None, or Some(message the loop received last)
    reply,      \* SpecLsp: the responses sent while that message was handled
    swallowed,  \* SpecLsp: None, or Some(what handle_shutdown received)
    invoked,    \* SpecLsp: the handlers the dispatcher invoked for that message
    requested   \* SpecLsp: whether main_loop has received a Message::Request

typVars == <<types, op, arg, ret>>
callVars == <<call, cret>>
compileVars == <<prog, pc, out, err>>
lspVars == <<state, loop, msg, reply, swallowed, invoked, requested>>

vars == <<types, op, arg, ret, ctx, call, cret, prog, pc, out, err,
          state, loop, msg, reply, swallowed, invoked, requested>>

(***************************************************************************)
(* Bounds                                                                   *)
(***************************************************************************)
MaxLen == 4         \* longest drawn sequence of triples
MaxArgs == 2        \* most arguments of a drawn call or user signature
MaxStmts == 3       \* longest drawn statement list

(***************************************************************************)
(* types/src/lib.rs                                                         *)
(***************************************************************************)
Number == "ValType::Number"
VList == "ValType::List"
ValType == {Number, VList}

FileIds == {0, 1234}
Offsets == {0, 1}

Span_new(file_id, start, end) == [file_id |-> file_id, start |-> start, end |-> end]

None == [tag |-> "None"]
Some(v) == [tag |-> "Some", val |-> v]

\* Span::with_end_of
with_end_of(self, other) ==
    IF self.file_id = other.file_id
        THEN Some(Span_new(self.file_id, self.start, other.end))
        ELSE None

(***************************************************************************)
(* compiler/src/types.rs: Typ                                               *)
(***************************************************************************)
Num == "Typ::Num"
List == "Typ::List"
MappedList == "Typ::MappedList"
Typ == {Num, List, MappedList}

Ok(v) == [tag |-> "Ok", val |-> v]
Err(e) == [tag |-> "Err", val |-> e]
\* a panic where a triple was to be returned, and where a Typ was
Panic == [tag |-> "Panic"]
AssertFailed == "debug_assert_eq! failed"

\* a conversion that takes every declared type for a number
Typ_from_AllNum(v) == Num

\* impl From<ValType> for Typ
Typ_from(v) ==
    CASE v = Number -> Num
      [] v = VList -> List

\* a conversion that succeeds for every Typ
ValType_try_from_Total(value) ==
    CASE value = Num -> Ok(Number)
      [] value = List -> Ok(VList)
      [] value = MappedList -> Ok(VList)

\* impl TryFrom<Typ> for ValType
ValType_try_from(value) ==
    CASE value = Num -> Ok(Number)
      [] value = List -> Ok(VList)
      [] value = MappedList -> Err("()")

\* is_num_weak answering as is_num_strict does
is_num_weak_Strict(self) == self = Num

\* Typ::is_num_weak
is_num_weak(self) ==
    CASE self = Num -> TRUE
      [] self = List -> FALSE
      [] self = MappedList -> TRUE

\* is_list_weak that takes a List alone for a list
is_list_weak_Strict(self) == self = List

\* Typ::is_list_weak
is_list_weak(self) ==
    CASE self = Num -> FALSE
      [] self = List -> TRUE
      [] self = MappedList -> TRUE

\* is_num_strict answering as is_num_weak does
is_num_strict_Weak(self) == self \in {Num, MappedList}

\* Typ::is_num_strict
is_num_strict(self) == self = Num

\* eq_weak with the MappedList arm comparing list-weakly
eq_weak_ListArm(self, rhs) ==
    CASE self = Num -> is_num_weak(rhs)
      [] self = List -> rhs = List
      [] self = MappedList -> is_list_weak(rhs)

\* Typ::eq_weak
eq_weak(self, rhs) ==
    CASE self = Num -> is_num_weak(rhs)
      [] self = List -> rhs = List
      [] self = MappedList -> is_num_weak(rhs)

(***************************************************************************)
(* compiler/src/types.rs: TypInfo                                           *)
(***************************************************************************)
Literal(lit, span) == [tag |-> "Literal", lit |-> lit, span |-> span]
BinOp(ls, rs) == [tag |-> "BinOp", left |-> ls, right |-> rs]
Map(span) == [tag |-> "Map", span |-> span]
MappedCall(call_span, func, mapped_arg) ==
    [tag |-> "MappedCall", call_span |-> call_span, func |-> func,
     mapped_arg |-> mapped_arg]
Call(call_span, r) == [tag |-> "Call", call_span |-> call_span, ret |-> r]
Builtin(span, func) == [tag |-> "Builtin", span |-> span, func |-> func]

\* a (Span, Typ, TypInfo) triple
Triple(s, t, i) == [span |-> s, typ |-> t, info |-> i]

\* binop_exprs that keeps the list-weak operand's own type
binop_exprs_KeepTyp(left, right) ==
    IF is_list_weak(left.typ)
        THEN Triple(left.span, left.typ, left.info)
    ELSE IF is_list_weak(right.typ)
        THEN Triple(right.span, right.typ, right.info)
    ELSE LET sp == with_end_of(left.span, right.span) IN
        IF sp = None THEN Panic
        ELSE Triple(sp.val, left.typ, BinOp(left.span, right.span))

\* binop_exprs that looks at the right operand before the left one
binop_exprs_RightFirst(left, right) ==
    IF is_list_weak(right.typ)
        THEN Triple(right.span, List, right.info)
    ELSE IF is_list_weak(left.typ)
        THEN Triple(left.span, List, left.info)
    ELSE LET sp == with_end_of(left.span, right.span) IN
        IF sp = None THEN Panic
        ELSE Triple(sp.val, left.typ, BinOp(left.span, right.span))

\* binop_exprs
binop_exprs(left, right) ==
    IF is_list_weak(left.typ)
        THEN Triple(left.span, List, left.info)
    ELSE IF is_list_weak(right.typ)
        THEN Triple(right.span, List, right.info)
    ELSE IF left.typ # Num \/ right.typ # Num
        THEN Panic                                  \* debug_assert_eq!
    ELSE LET sp == with_end_of(left.span, right.span) IN
        IF sp = None
            THEN Panic                              \* .expect("Parsing same file")
            ELSE Triple(sp.val, left.typ, BinOp(left.span, right.span))

\* combine_types that widens only when both operands are list-weak
combine_types_Both(left, right) ==
    IF is_list_weak(left) /\ is_list_weak(right)
        THEN List
        ELSE Num

\* combine_types
combine_types(left, right) ==
    IF is_list_weak(left) \/ is_list_weak(right)
        THEN List
    ELSE IF left # Num \/ right # Num
        THEN AssertFailed                           \* debug_assert_eq!
        ELSE Num

\* Iterator::reduce's accumulation: acc folded with s[i..] from the left
RECURSIVE reduce_from(_, _, _)
reduce_from(acc, s, i) ==
    IF i > Len(s) THEN acc
    ELSE IF acc = Panic THEN Panic
    ELSE reduce_from(binop_exprs(acc, s[i]), s, i + 1)

\* a reduction that stops after the first binop
reduce_with_binop_exprs_Short(s) ==
    IF Len(s) = 0 THEN None
    ELSE IF Len(s) = 1 THEN Some(s[1])
    ELSE Some(binop_exprs(s[1], s[2]))

\* reduce_with_binop_exprs
reduce_with_binop_exprs(s) ==
    IF Len(s) = 0 THEN None
    ELSE Some(reduce_from(s[1], s, 2))

\* the type inferred for a Piecewise whose branch values and default lowered
\* to vals
piecewise_typ(vals) ==
    LET r == reduce_with_binop_exprs(vals) IN
    IF r = None \/ r.val = Panic THEN AssertFailed ELSE r.val.typ

(***************************************************************************)
(* compiler/src/builtins.rs                                                 *)
(***************************************************************************)
Static(a) == [tag |-> "Static", types |-> a]
Variadic == [tag |-> "Variadic"]

\* macro f!
m_f(args, r) == [args |-> Static(args), ret |-> r]
\* macro n!
m_n == m_f(<<Number>>, Number)
\* macro nn!
m_nn == m_f(<<Number, Number>>, Number)
\* macro l!
m_l == m_f(<<VList>>, Number)
\* macro ll!
m_ll == m_f(<<VList, VList>>, Number)

\* the entries of the phf_map! literal
BuiltinEntries ==
    ("sin" :> m_n) @@ ("cos" :> m_n) @@ ("tan" :> m_n) @@
    ("csc" :> m_n) @@ ("sec" :> m_n) @@ ("cot" :> m_n) @@
    ("arcsin" :> m_n) @@ ("arccos" :> m_n) @@ ("arctan" :> m_n) @@
    ("arccsc" :> m_n) @@ ("arcsec" :> m_n) @@ ("arccot" :> m_n) @@
    ("sinh" :> m_n) @@ ("cosh" :> m_n) @@ ("tanh" :> m_n) @@
    ("csch" :> m_n) @@ ("sech" :> m_n) @@ ("coth" :> m_n) @@
    ("total" :> m_l) @@ ("min" :> m_l) @@ ("max" :> m_l) @@ ("length" :> m_l) @@
    ("mean" :> m_l) @@ ("median" :> m_l) @@ ("stdev" :> m_l) @@ ("stdevp" :> m_l) @@
    ("mad" :> m_l) @@ ("var" :> m_l) @@ ("cov" :> m_l) @@
    ("corr" :> m_ll) @@
    ("quantile" :> m_f(<<VList, Number>>, Number)) @@
    ("nCr" :> m_nn) @@ ("nPr" :> m_nn) @@
    ("join" :> m_ll) @@
    ("sort" :> m_l) @@ ("shuffle" :> m_l) @@
    ("lcm" :> [args |-> Variadic, ret |-> Number]) @@
    ("gcd" :> [args |-> Variadic, ret |-> Number]) @@
    ("mod" :> m_nn) @@
    ("floor" :> m_n) @@ ("abs" :> m_n) @@ ("sign" :> m_n) @@ ("exp" :> m_n) @@
    ("ln" :> m_n) @@ ("log" :> m_n) @@
    ("sqrt" :> m_n) @@ ("nthroot" :> m_nn) @@
    ("round" :> m_n)

\* the table with the "sin" entry left out
BUILTIN_FUNCTIONS_NoSin ==
    [k \in (DOMAIN BuiltinEntries) \ {"sin"} |-> BuiltinEntries[k]]

\* the table with join declared to return List
BUILTIN_FUNCTIONS_JoinList ==
    ("join" :> m_f(<<VList, VList>>, VList)) @@ BuiltinEntries

\* pub static BUILTIN_FUNCTIONS
BUILTIN_FUNCTIONS == BuiltinEntries

(***************************************************************************)
(* ast/src/lib.rs                                                           *)
(***************************************************************************)
\* ast::Function::Normal
FnNormal(name) == [tag |-> "Normal", name |-> name]

\* ast::func_name
func_name(func) ==
    CASE func.tag = "Normal" -> func.name
      [] func.tag = "Log" -> "log_" \o func.base

\* Expression variants
ENum(text) == [tag |-> "Num", text |-> text]
EVariable(name) == [tag |-> "Variable", name |-> name]
ECall(func, args) == [tag |-> "Call", func |-> func, args |-> args]

\* Statement variants
VarDef(name, val, inline) ==
    [tag |-> "VarDef", name |-> name, val |-> val, inline |-> inline]
FunctionDefinition(name, args, ret_annotation, inline) ==
    [name |-> name, args |-> args, ret_annotation |-> ret_annotation,
     inline |-> inline]
FuncDef(def, body) == [tag |-> "FuncDef", def |-> def, body |-> body]
\* Expression::FullyQualifiedVariable { path, item }
EFullyQualifiedVariable(path, item) ==
    [tag |-> "FullyQualifiedVariable", path |-> path, item |-> item]

\* ImportMode
ModeImport(name) == [tag |-> "Import", name |-> name]
ModeInclude == [tag |-> "Include"]

\* Statement::Import(Import { path, mode })
Import(path, mode) == [tag |-> "Import", path |-> path, mode |-> mode]

ExprStmt(e) == [tag |-> "Expression", expr |-> e]

(***************************************************************************)
(* compiler/src/types.rs: Context, signatures, resolution results           *)
(***************************************************************************)
EmptyMap == [k \in {} |-> None]

\* HashMap::insert: a later insertion under the same key replaces the entry
Insert(m, k, v) == (k :> v) @@ m

FunctionSignature(args, r) == [args |-> args, ret |-> r]
InlineFunction(args, r, body) == [args |-> args, ret |-> r, body |-> body]

Normal(func, is_builtin) ==
    [tag |-> "Normal", func |-> func, is_builtin |-> is_builtin]
Inline(func) == [tag |-> "Inline", func |-> func]

\* Default for Box<dyn Loader>: Box::new(UnimplementedLoader)
Loader_default == [tag |-> "UnimplementedLoader"]

\* UnimplementedLoader::load and ::parse_source: unimplemented!() panics
UnimplementedLoader_load(path) == Panic
UnimplementedLoader_parse_source(source) == Panic

\* a source text the parser rejects, and the text of a parsed statement list
BadSource == [tag |-> "BadSource"]
SourceOf(stmts) == [tag |-> "Source", stmts |-> stmts]

\* a Loader over a table of files: parse_source gives the statements of a
\* well-formed text and None otherwise; load reads the file at path, None
\* when there is none, and parses it
FileLoader(files) == [tag |-> "FileLoader", files |-> files]
FileLoader_parse_source(source) ==
    IF source.tag = "Source" THEN Some(source.stmts) ELSE None
FileLoader_load(files, path) ==
    IF path \in DOMAIN files THEN FileLoader_parse_source(files[path]) ELSE None

\* a FileLoader that reports a failure as an empty module
Loader_load_EmptyOnFailure(loader, path) ==
    IF loader.tag = "UnimplementedLoader" THEN UnimplementedLoader_load(path)
    ELSE IF FileLoader_load(loader.files, path) = None THEN Some(<<>>)
    ELSE FileLoader_load(loader.files, path)

\* dyn Loader::load through the Box the Context holds
Loader_load(loader, path) ==
    IF loader.tag = "UnimplementedLoader"
        THEN UnimplementedLoader_load(path)
        ELSE FileLoader_load(loader.files, path)

\* dyn Loader::parse_source
Loader_parse_source(loader, source) ==
    IF loader.tag = "UnimplementedLoader"
        THEN UnimplementedLoader_parse_source(source)
        ELSE FileLoader_parse_source(source)

\* a Context that starts out with a variable x bound
Context_new_Prebound ==
    [variables |-> ("x" :> [typ |-> Number,
                            info |-> Literal("Numeric", Span_new(0, 0, 0))]),
     locals |-> EmptyMap,
     defined_functions |-> EmptyMap,
     inline_vals |-> EmptyMap,
     inline_fns |-> EmptyMap,
     modules |-> EmptyMap,
     loader |-> Loader_default]

\* a Context that starts out with a module k bound
Context_new_WithModule ==
    [variables |-> EmptyMap,
     locals |-> EmptyMap,
     defined_functions |-> EmptyMap,
     inline_vals |-> EmptyMap,
     inline_fns |-> EmptyMap,
     modules |-> ("k" :> [variables |->
                            ("v" :> [typ |-> Number,
                                     info |-> Literal("Numeric", Span_new(0, 0, 0))]),
                          locals |-> EmptyMap,
                          defined_functions |-> EmptyMap,
                          inline_vals |-> EmptyMap,
                          inline_fns |-> EmptyMap,
                          modules |-> EmptyMap,
                          loader |-> Loader_default]),
     loader |-> Loader_default]

\* a Context whose locals layer still holds a parameter a
Context_new_StaleLocal ==
    [variables |-> EmptyMap,
     locals |-> ("a" :> [typ |-> Number,
                         info |-> [tag |-> "InlineFuncArg", span |-> Span_new(0, 0, 0)]]),
     defined_functions |-> EmptyMap,
     inline_vals |-> EmptyMap,
     inline_fns |-> EmptyMap,
     modules |-> EmptyMap,
     loader |-> Loader_default]

\* Context::new
Context_new ==
    [variables |-> EmptyMap,
     locals |-> EmptyMap,
     defined_functions |-> EmptyMap,
     inline_vals |-> EmptyMap,
     inline_fns |-> EmptyMap,
     modules |-> EmptyMap,
     loader |-> Loader_default]

\* Context::new_with_loader
Context_new_with_loader(loader) == [Context_new EXCEPT !.loader = loader]

(***************************************************************************)
(* CompileError kinds                                                       *)
(***************************************************************************)
UnknownVariable(span, name) ==
    [kind |-> "UnknownVariable", span |-> span, name |-> name]
UnknownFunction(span, name) ==
    [kind |-> "UnknownFunction", span |-> span, name |-> name]
WrongArgCount(span, got, expected) ==
    [kind |-> "WrongArgCount", span |-> span, got |-> got, expected |-> expected]
TypeMismatch(span, got, expected) ==
    [kind |-> "TypeMismatch", span |-> span, got |-> got, expected |-> expected]
UnknownModule(span, name) ==
    [kind |-> "UnknownModule", span |-> span, name |-> name]
UnresolvedImport(span, path) ==
    [kind |-> "UnresolvedImport", span |-> span, path |-> path]
InvalidModulePath(span) == [kind |-> "InvalidModulePath", span |-> span]

(***************************************************************************)
(* Function resolution and call checking                                    *)
(***************************************************************************)
\* the heap FunctionSignature made of a builtin table entry
builtin_signature(name, call_span) ==
    LET b == BUILTIN_FUNCTIONS[name] IN
    FunctionSignature(b.args,
        [typ |-> b.ret, info |-> Builtin(call_span, FnNormal(name))])

\* user definitions first (inline, then normal), builtins last
resolve_function(c, name, call_span) ==
    IF name \in DOMAIN c.inline_fns
        THEN Some(Inline(c.inline_fns[name]))
    ELSE IF name \in DOMAIN c.defined_functions
        THEN Some(Normal(c.defined_functions[name], FALSE))
    ELSE IF name \in DOMAIN BUILTIN_FUNCTIONS
        THEN Some(Normal(builtin_signature(name, call_span), TRUE))
    ELSE None

\* least position whose argument fails its slot, 0 when none does
FirstMismatch(expected, args) ==
    LET bad == {i \in 1..Len(args) :
                    ~eq_weak(Typ_from(expected[i]), args[i].typ)}
    IN  IF bad = {} THEN 0 ELSE CHOOSE i \in bad : \A j \in bad : i <= j

\* least position where a list-weak argument meets a Number slot, 0 when none
FirstMapped(expected, args) ==
    LET m == {i \in 1..Len(args) :
                    is_list_weak(args[i].typ) /\ expected[i] = Number}
    IN  IF m = {} THEN 0 ELSE CHOOSE i \in m : \A j \in m : i <= j

\* the value of a successful call: its type, provenance and resolution
CallValue(t, i, resolved) == [typ |-> t, info |-> i, resolved |-> resolved]

\* a call to a Normal function with signature sig
compile_static_call(call_span, func, resolved, args) ==
    LET sig == resolved.func
        expected == sig.args.types
    IN
    IF sig.args.tag = "Variadic" THEN
        LET bad == {i \in 1..Len(args) :
                        ~eq_weak(Typ_from(sig.ret.typ), args[i].typ)}
        IN  IF bad # {}
                THEN LET i == CHOOSE i \in bad : \A j \in bad : i <= j
                     IN  Err(TypeMismatch(args[i].span, args[i].typ, sig.ret.typ))
                ELSE Ok(CallValue(Typ_from(sig.ret.typ),
                                  Call(call_span, sig.ret.info), resolved))
    ELSE IF Len(args) # Len(expected) THEN
        Err(WrongArgCount(call_span, Len(args), Len(expected)))
    ELSE IF FirstMismatch(expected, args) # 0 THEN
        LET i == FirstMismatch(expected, args)
        IN  Err(TypeMismatch(args[i].span, args[i].typ, expected[i]))
    ELSE IF FirstMapped(expected, args) # 0 THEN
        LET i == FirstMapped(expected, args)
        IN  Ok(CallValue(MappedList,
                         MappedCall(call_span, func, args[i].info), resolved))
    ELSE Ok(CallValue(Typ_from(sig.ret.typ),
                      Call(call_span, sig.ret.info), resolved))

\* a call to an inline function: its stored body is substituted
compile_inline_call(call_span, func, resolved, args) ==
    LET fn == resolved.func IN
    IF Len(args) # Len(fn.args)
        THEN Err(WrongArgCount(call_span, Len(args), Len(fn.args)))
        ELSE Ok(CallValue(fn.ret.typ, Call(call_span, fn.ret.info), resolved))

\* Expression::Call with its arguments already lowered, left to right
compile_call(c, call_span, func, args) ==
    LET r == resolve_function(c, func_name(func), call_span) IN
    IF r = None THEN Err(UnknownFunction(call_span, func_name(func)))
    ELSE IF r.val.tag = "Inline"
        THEN compile_inline_call(call_span, func, r.val, args)
        ELSE compile_static_call(call_span, func, r.val, args)

\* no language server runs
LspOff ==
    /\ state = None
    /\ loop = "off"
    /\ msg = None
    /\ reply = <<>>
    /\ swallowed = None
    /\ invoked = <<>>
    /\ requested = FALSE

(***************************************************************************)
(* Drawn inputs of SpecTyp                                                  *)
(***************************************************************************)
Spans(f) ==
    {Span_new(f, r[1], r[2]) :
        r \in {q \in Offsets \X Offsets : q[1] <= q[2]}}

\* the provenance a freshly lowered operand of type t at span s carries
InfoOf(t, s) ==
    CASE t = Num -> Literal("Numeric", s)
      [] t = List -> Literal("List", s)
      [] t = MappedList -> Map(s)

Triples(f) == {Triple(s, t, InfoOf(t, s)) : s \in Spans(f), t \in Typ}

SeqsUpTo(S, n) == UNION {[1..k -> S] : k \in 0..n}

\* The operands of one expression are parsed from one file (parse assigns
\* every span its source's FileID), so the triples of a sequence share f.
TypInit ==
    /\ \E f \in FileIds : types \in SeqsUpTo(Triples(f), MaxLen)
    /\ op = "none"
    /\ arg = <<>>
    /\ ret = None
    /\ ctx = Context_new
    /\ call = None
    /\ cret = None
    /\ prog = <<>>
    /\ pc = 1
    /\ out = <<>>
    /\ err = None
    /\ LspOff

(***************************************************************************)
(* Actions of SpecTyp: each applies one function of types.rs                *)
(***************************************************************************)
DoCombineTypes ==
    /\ Len(types) >= 2
    /\ op' = "combine_types"
    /\ arg' = <<types[1].typ, types[2].typ>>
    /\ ret' = combine_types(types[1].typ, types[2].typ)
    /\ UNCHANGED <<types, ctx, callVars, compileVars, lspVars>>

DoEqWeak ==
    /\ Len(types) >= 2
    /\ op' = "eq_weak"
    /\ arg' = <<types[1].typ, types[2].typ>>
    /\ ret' = eq_weak(types[1].typ, types[2].typ)
    /\ UNCHANGED <<types, ctx, callVars, compileVars, lspVars>>

DoTryFrom ==
    /\ Len(types) >= 1
    /\ op' = "try_from"
    /\ arg' = <<types[1].typ>>
    /\ ret' = ValType_try_from(types[1].typ)
    /\ UNCHANGED <<types, ctx, callVars, compileVars, lspVars>>

DoFrom ==
    \E v \in ValType :
        /\ op' = "from"
        /\ arg' = <<v>>
        /\ ret' = Typ_from(v)
        /\ UNCHANGED <<types, ctx, callVars, compileVars, lspVars>>

DoBinopExprs ==
    /\ Len(types) >= 2
    /\ op' = "binop_exprs"
    /\ arg' = <<types[1], types[2]>>
    /\ ret' = binop_exprs(types[1], types[2])
    /\ UNCHANGED <<types, ctx, callVars, compileVars, lspVars>>

DoReduce ==
    /\ op' = "reduce_with_binop_exprs"
    /\ arg' = types
    /\ ret' = reduce_with_binop_exprs(types)
    /\ UNCHANGED <<types, ctx, callVars, compileVars, lspVars>>

\* Piecewise: the values of the branches (at least one) and then the default
DoPiecewise ==
    /\ Len(types) >= 2
    /\ op' = "piecewise"
    /\ arg' = types
    /\ ret' = piecewise_typ(types)
    /\ UNCHANGED <<types, ctx, callVars, compileVars, lspVars>>

\* the three classifying predicates of a Typ, applied to the first operand
DoIsWeak ==
    /\ Len(types) >= 1
    /\ op' = "is_weak"
    /\ arg' = <<types[1].typ>>
    /\ ret' = [is_num_weak |-> is_num_weak(types[1].typ),
               is_list_weak |-> is_list_weak(types[1].typ),
               is_num_strict |-> is_num_strict(types[1].typ)]
    /\ UNCHANGED <<types, ctx, callVars, compileVars, lspVars>>

TypNext ==
    \/ DoIsWeak
    \/ DoCombineTypes
    \/ DoEqWeak
    \/ DoTryFrom
    \/ DoFrom
    \/ DoBinopExprs
    \/ DoReduce
    \/ DoPiecewise

SpecTyp == TypInit /\ [][TypNext]_vars

(***************************************************************************)
(* Expression and statement lowering                                        *)
(***************************************************************************)
\* the span of argument j of a call at call_span
ArgSpan(call_span, j) ==
    Span_new(call_span.file_id, call_span.start + 2 * j, call_span.start + 2 * j + 1)

\* the span of statement i of the list, and of its value or body expression
StmtSpan(i) == Span_new(0, 10 * i, 10 * i + 9)
ValSpan(i) == Span_new(0, 10 * i + 3, 10 * i + 9)

\* the value of a lowered expression that is no call
Value(t, i) == [typ |-> t, info |-> i, resolved |-> None]

\* unqualified variable lookup: locals, then variables, then inline values
lookup_variable(c, name, span) ==
    IF name \in DOMAIN c.locals
        THEN Ok(Value(Typ_from(c.locals[name].typ), c.locals[name].info))
    ELSE IF name \in DOMAIN c.variables
        THEN Ok(Value(Typ_from(c.variables[name].typ), c.variables[name].info))
    ELSE IF name \in DOMAIN c.inline_vals
        THEN Ok(Value(c.inline_vals[name].typ, c.inline_vals[name].info))
    ELSE Err(UnknownVariable(span, name))

\* module-qualified lookup: one level deep, in the named module's own tables
lookup_qualified(c, path, item, span) ==
    IF Len(path) > 1 THEN Err(InvalidModulePath(span))
    ELSE IF path[1] \notin DOMAIN c.modules THEN Err(UnknownModule(span, path[1]))
    ELSE LET mc == c.modules[path[1]] IN
        IF item \in DOMAIN mc.variables
            THEN Ok(Value(Typ_from(mc.variables[item].typ), mc.variables[item].info))
        ELSE IF item \in DOMAIN mc.inline_vals
            THEN Ok(Value(mc.inline_vals[item].typ, mc.inline_vals[item].info))
        ELSE Err(UnknownVariable(span, item))

\* lower(Context, Expression)
RECURSIVE lower(_, _, _)
lower(c, e, span) ==
    CASE e.tag = "Num" -> Ok(Value(Num, Literal("Numeric", span)))
      [] e.tag = "Variable" -> lookup_variable(c, e.name, span)
      [] e.tag = "FullyQualifiedVariable" ->
            lookup_qualified(c, e.path, e.item, span)
      [] e.tag = "Call" ->
            LET lowered == [j \in 1..Len(e.args) |->
                                lower(c, e.args[j], ArgSpan(span, j))]
                failed == {j \in 1..Len(e.args) : lowered[j].tag = "Err"}
            IN  IF failed # {}
                    THEN lowered[CHOOSE j \in failed : \A k \in failed : j <= k]
                    ELSE compile_call(c, span, e.func,
                            [j \in 1..Len(e.args) |->
                                Triple(ArgSpan(span, j), lowered[j].val.typ,
                                       lowered[j].val.info)])

\* the outcome of one statement: the Context after it and its result
Outcome(c, res) == [ctx |-> c, res |-> res]

InlineFuncArg(span) == [tag |-> "InlineFuncArg", span |-> span]

\* the locals layer a function body is lowered against
ParamLocals(args) ==
    [name \in {args[j].name : j \in 1..Len(args)} |->
        LET j == CHOOSE j \in 1..Len(args) : args[j].name = name
        IN  [typ |-> args[j].typ, info |-> InlineFuncArg(args[j].span)]]

\* Statement::VarDef once its value is lowered to r
vardef_bind(c, i, stmt, r) ==
    IF r.tag = "Err" THEN Outcome(c, r)
    ELSE IF stmt.inline THEN
        Outcome([c EXCEPT !.inline_vals =
                    Insert(@, stmt.name,
                           [latex |-> "latex", typ |-> r.val.typ, info |-> r.val.info])],
                Ok(Value(r.val.typ, r.val.info)))
    ELSE LET vt == ValType_try_from(r.val.typ) IN
        IF vt.tag = "Err"
            THEN Outcome(c, Err(TypeMismatch(ValSpan(i), r.val.typ, VList)))
            ELSE Outcome([c EXCEPT !.variables =
                            Insert(@, stmt.name, [typ |-> vt.val, info |-> r.val.info])],
                         Ok(Value(r.val.typ, r.val.info)))

\* Statement::VarDef: the value is lowered against the Context as it is
compile_vardef(c, i, stmt) ==
    vardef_bind(c, i, stmt, lower(c, stmt.val, ValSpan(i)))

\* Statement::FuncDef once its body is lowered to body
funcdef_register(c, i, def, body) ==
    IF body.tag = "Err" THEN Outcome(c, body)
    ELSE IF def.inline THEN
        Outcome([c EXCEPT !.inline_fns =
                    Insert(@, def.name,
                        InlineFunction(
                            [j \in 1..Len(def.args) |->
                                [name |-> def.args[j].name, typ |-> def.args[j].typ]],
                            [typ |-> body.val.typ, info |-> body.val.info],
                            "latex"))],
                Ok(Value(body.val.typ, body.val.info)))
    ELSE LET vt == ValType_try_from(body.val.typ) IN
        IF vt.tag = "Err"
            THEN Outcome(c, Err(TypeMismatch(ValSpan(i), body.val.typ, VList)))
            ELSE Outcome([c EXCEPT !.defined_functions =
                            Insert(@, def.name,
                                FunctionSignature(
                                    Static([j \in 1..Len(def.args) |-> def.args[j].typ]),
                                    [typ |-> vt.val, info |-> body.val.info]))],
                         Ok(Value(body.val.typ, body.val.info)))

\* Statement::FuncDef: the body is lowered against the parameters as locals
compile_funcdef(c, i, stmt) ==
    funcdef_register(c, i, stmt.def,
        lower([c EXCEPT !.locals = ParamLocals(stmt.def.args)], stmt.body, ValSpan(i)))

\* what a statement without a value compiles to
NoValue == [tag |-> "NoValue"]

RECURSIVE compile_stmt(_, _, _)

\* compile_stmts: the statements from index i on, in order, against the
\* Context, stopping at the first one that does not succeed
RECURSIVE compile_stmts_from(_, _, _)
\* the loop after statement i gave the outcome r
stmts_continue(r, stmts, i) ==
    IF r.res.tag = "Ok" THEN compile_stmts_from(r.ctx, stmts, i + 1) ELSE r

compile_stmts_from(c, stmts, i) ==
    IF i > Len(stmts) THEN Outcome(c, Ok(NoValue))
    ELSE stmts_continue(compile_stmt(c, i, stmts[i]), stmts, i)

compile_stmts(c, stmts) == compile_stmts_from(c, stmts, 1)

\* Import { name } once the module's statements compiled to child, and
\* Include once they compiled to it in place of the current Context
import_bind(c, mode, child) ==
    IF mode.tag = "Include" THEN child
    ELSE IF child.res.tag = "Ok"
        THEN Outcome([c EXCEPT !.modules = Insert(@, mode.name, child.ctx)],
                     Ok(NoValue))
        ELSE Outcome(c, child.res)

\* the Import statement once the Loader answered loaded
import_loaded(c, i, stmt, loaded) ==
    IF loaded.tag = "Panic" THEN Outcome(c, Panic)
    ELSE IF loaded.tag = "None"
        THEN Outcome(c, Err(UnresolvedImport(StmtSpan(i), stmt.path)))
    ELSE import_bind(c, stmt.mode,
            compile_stmts(IF stmt.mode.tag = "Import"
                            THEN Context_new_with_loader(c.loader) ELSE c,
                          loaded.val))

\* Statement::Import: the Loader's statements compiled into a fresh child
\* Context bound in modules (Import { name }) or into this Context (Include)
compile_import(c, i, stmt) ==
    import_loaded(c, i, stmt, Loader_load(c.loader, stmt.path))

\* compile_stmt: one statement against the Context
compile_stmt(c, i, stmt) ==
    CASE stmt.tag = "VarDef" -> compile_vardef(c, i, stmt)
      [] stmt.tag = "FuncDef" -> compile_funcdef(c, i, stmt)
      [] stmt.tag = "Expression" -> Outcome(c, lower(c, stmt.expr, StmtSpan(i)))
      [] stmt.tag = "Import" -> compile_import(c, i, stmt)

(***************************************************************************)
(* SpecCall: one call site                                                  *)
(***************************************************************************)
UserFuncNames == {"f", "sin"}
CallNames == (DOMAIN BuiltinEntries) \cup {"f", "g"}

DefSpan == Span_new(0, 0, 0)

StaticSigs ==
    {FunctionSignature(Static(a), [typ |-> r, info |-> InlineFuncArg(DefSpan)]) :
        a \in SeqsUpTo(ValType, MaxArgs), r \in ValType}

InlineFns ==
    {InlineFunction([j \in 1..k |-> [name |-> "a", typ |-> Number]],
                    [typ |-> Num, info |-> InlineFuncArg(DefSpan)], "latex") :
        k \in 0..MaxArgs}

\* the Contexts a call is compiled against: no user function, or one
CallContexts ==
    {Context_new}
    \cup {[Context_new EXCEPT !.defined_functions = Insert(@, u, sig)] :
            u \in UserFuncNames, sig \in StaticSigs}
    \cup {[Context_new EXCEPT !.inline_fns = Insert(@, u, fn)] :
            u \in UserFuncNames, fn \in InlineFns}

\* the span of a call with k arguments
CallSpan(k) == Span_new(0, 0, 2 * k + 2)

\* lowered arguments of the types ts, laid out left to right inside the call
ArgsOf(ts) ==
    [j \in 1..Len(ts) |->
        Triple(ArgSpan(CallSpan(Len(ts)), j), ts[j],
               InfoOf(ts[j], ArgSpan(CallSpan(Len(ts)), j)))]

CallInit ==
    /\ types = <<>>
    /\ op = "none"
    /\ arg = <<>>
    /\ ret = None
    /\ ctx \in CallContexts
    /\ \E name \in CallNames, ts \in SeqsUpTo(Typ, MaxArgs) :
            call = [func |-> FnNormal(name), span |-> CallSpan(Len(ts)),
                    args |-> ArgsOf(ts)]
    /\ cret = None
    /\ prog = <<>>
    /\ pc = 1
    /\ out = <<>>
    /\ err = None
    /\ LspOff

DoCall ==
    /\ cret = None
    /\ cret' = Some(compile_call(ctx, call.span, call.func, call.args))
    /\ UNCHANGED <<typVars, ctx, call, compileVars, lspVars>>

\* a lookup of the called name in the static table: its entry, if any
DoGet ==
    /\ op = "none"
    /\ call # None
    /\ op' = "get"
    /\ arg' = <<func_name(call.func)>>
    /\ ret' = IF func_name(call.func) \in DOMAIN BUILTIN_FUNCTIONS
                THEN Some(BUILTIN_FUNCTIONS[func_name(call.func)])
                ELSE None
    /\ UNCHANGED <<types, ctx, callVars, compileVars, lspVars>>

CallNext == DoCall \/ DoGet

SpecCall == CallInit /\ [][CallNext]_vars

(***************************************************************************)
(* SpecCompile: compile_stmts over a drawn statement list                   *)
(***************************************************************************)
VarNames == {"x", "y"}

ValueExprs == {ENum("1")} \cup {EVariable(v) : v \in VarNames}
BodyExprs == {EVariable("a"), EVariable("x")}
CalledNames == {"sin", "f", "g"}

\* parameter a: Number, declared at the head of statement i
Params == <<[name |-> "a", typ |-> Number, span |-> DefSpan]>>

\* parameter x: List, named like the global variable x
ParamsX == <<[name |-> "x", typ |-> VList, span |-> DefSpan]>>

Statements ==
    {VarDef(v, e, inl) : v \in VarNames, e \in ValueExprs, inl \in BOOLEAN}
    \cup {FuncDef(FunctionDefinition(u, Params, None, inl), b) :
            u \in UserFuncNames, inl \in BOOLEAN, b \in BodyExprs}
    \cup {FuncDef(FunctionDefinition("h", ParamsX, None, inl), EVariable("x")) :
            inl \in BOOLEAN}
    \cup {FuncDef(FunctionDefinition("h", ParamsX, None, FALSE), EVariable("y"))}
    \cup {ExprStmt(EVariable(v)) : v \in VarNames \cup {"a"}}
    \cup {ExprStmt(ECall(FnNormal(u), <<ENum("1")>>)) : u \in CalledNames}

CompileInit ==
    /\ types = <<>>
    /\ op = "none"
    /\ arg = <<>>
    /\ ret = None
    /\ ctx = Context_new
    /\ call = None
    /\ cret = None
    /\ prog \in SeqsUpTo(Statements, MaxStmts)
    /\ pc = 1
    /\ out = <<>>
    /\ err = None
    /\ LspOff

\* one turn of compile_stmts' loop: the next statement, stopping at an error
CompileStmt ==
    /\ err = None
    /\ pc <= Len(prog)
    /\ \A k \in 1..Len(out) : out[k].tag # "Panic"
    /\ \E r \in {compile_stmt(ctx, pc, prog[pc])} :
        /\ ctx' = r.ctx
        /\ out' = Append(out, r.res)
        /\ err' = IF r.res.tag = "Err" THEN Some(r.res.val) ELSE None
        /\ pc' = IF r.res.tag = "Ok" THEN pc + 1 ELSE pc
    /\ UNCHANGED <<typVars, callVars, prog, lspVars>>

CompileNext == CompileStmt

SpecCompile == CompileInit /\ [][CompileNext]_vars

(***************************************************************************)
(* SpecImport: statement lists with imports and module-qualified names,    *)
(* compiled against a Context with the default Loader or a file Loader     *)
(***************************************************************************)
\* the files the Loader knows: lib parses and compiles, bad does not parse,
\* broken parses and does not compile; any other path is no file
LibStmts == <<VarDef("v", ENum("1"), FALSE)>>
BrokenStmts == <<VarDef("v", ENum("1"), FALSE), ExprStmt(EVariable("nope"))>>
Files ==
    ("lib" :> SourceOf(LibStmts)) @@ ("bad" :> BadSource)
        @@ ("broken" :> SourceOf(BrokenStmts))

ImportPaths == {"lib", "bad", "broken", "missing"}
ImportModes == {ModeImport("m"), ModeInclude}

QualifiedExprs ==
    {EFullyQualifiedVariable(<<"m">>, "v"), EFullyQualifiedVariable(<<"m">>, "x"),
     EFullyQualifiedVariable(<<"k">>, "v"), EFullyQualifiedVariable(<<"m", "n">>, "v"),
     EFullyQualifiedVariable(<<"k", "m">>, "v")}

ImportStatements ==
    {Import(p, md) : p \in ImportPaths, md \in ImportModes}
    \cup {ExprStmt(e) : e \in QualifiedExprs}
    \cup {VarDef("x", ENum("1"), FALSE),
          ExprStmt(EVariable("x")), ExprStmt(EVariable("v"))}

ImportInit ==
    /\ types = <<>>
    /\ op = "none"
    /\ arg = <<>>
    /\ ret = None
    /\ ctx \in {Context_new, Context_new_with_loader(FileLoader(Files))}
    /\ call = None
    /\ cret = None
    /\ prog \in SeqsUpTo(ImportStatements, MaxStmts)
    /\ pc = 1
    /\ out = <<>>
    /\ err = None
    /\ LspOff

\* Loader::parse_source called on the Context's Loader with a drawn text
DoParseSource ==
    \E source \in {BadSource, SourceOf(LibStmts)} :
        /\ op' = "parse_source"
        /\ arg' = <<source>>
        /\ ret' = Loader_parse_source(ctx.loader, source)
        /\ UNCHANGED <<types, ctx, callVars, compileVars, lspVars>>

ImportNext == CompileStmt \/ DoParseSource

SpecImport == ImportInit /\ [][ImportNext]_vars

(***************************************************************************)
(* SpecLsp: the language server's main loop                                 *)
(***************************************************************************)
\* lsp_server::Message
Request(id, method, params) ==
    [kind |-> "Request", id |-> id, method |-> method, params |-> params]
Response_new_ok(id, result) ==
    [kind |-> "Response", id |-> id, result |-> result, error |-> None]
Notification(method, params) ==
    [kind |-> "Notification", method |-> method, params |-> params]

\* the METHOD constants of the lsp_types requests and notifications
M_Initialize == "initialize"
M_DidOpen == "textDocument/didOpen"
M_DidChange == "textDocument/didChange"
M_Completion == "textDocument/completion"
M_Definition == "textDocument/definition"
M_Shutdown == "shutdown"
M_Initialized == "initialized"
M_Exit == "exit"

\* params of didOpen (text_document.text), of didChange (content_changes),
\* and of the methods whose params the handlers do not read
OpenParams(text) == [text_document |-> [text |-> text]]
ChangeParams(text) == [content_changes |-> <<[text |-> text]>>]
NoParams == [tag |-> "null"]

\* lex_and_parse(0, content)
LexParseErrors == [tag |-> "LexParseErrors"]
lex_and_parse(content) ==
    IF content.tag = "Source" THEN Ok(content.stmts) ELSE Err(LexParseErrors)

StateVal(parse_err, compiler_err, compiler_ctx) ==
    [parse_err |-> parse_err, compiler_err |-> compiler_err,
     compiler_ctx |-> compiler_ctx]

\* the StateVal of a text that parsed, once compile_stmts gave r
\* (compile_stmts fills the Context it is handed; r.ctx is that Context)
store_compiled(r) ==
    IF r.res.tag = "Err"
        THEN Some(StateVal(None, Some(r.res.val), None))
        ELSE Some(StateVal(None, None, Some(r.ctx)))

\* handle_new_content once lex_and_parse gave parsed, compiling against base
store_parsed(parsed, base) ==
    IF parsed.tag = "Err"
        THEN Some(StateVal(Some(parsed.val), None, None))
        ELSE store_compiled(compile_stmts(base, parsed.val))

\* handle_new_content that compiles on top of the Context of the last edit
handle_new_content_Reuse(st, content) ==
    store_parsed(lex_and_parse(content),
                 IF st # None /\ st.val.compiler_ctx # None
                    THEN st.val.compiler_ctx.val ELSE Context_new)

\* handle_new_content that keeps the Context of a failed compilation
store_compiled_KeepsCtx(r) ==
    Some(StateVal(None, IF r.res.tag = "Err" THEN Some(r.res.val) ELSE None,
                  Some(r.ctx)))
handle_new_content_KeepsCtx(st, content) ==
    IF lex_and_parse(content).tag = "Err"
        THEN store_parsed(lex_and_parse(content), Context_new)
        ELSE store_compiled_KeepsCtx(
                compile_stmts(Context_new, lex_and_parse(content).val))

\* handle_new_content: the State it leaves in *state
handle_new_content(st, content) ==
    store_parsed(lex_and_parse(content), Context_new)

\* CompletionResponse::Array of one CompletionItem per variable (a HashMap
\* is iterated in no particular order: the items are a set)
CompletionArray(c) ==
    [tag |-> "Array",
     items |-> {[label |-> v, detail |-> c.variables[v]] : v \in DOMAIN c.variables}]

\* completion_handler: what it returns
completion_handler(st) ==
    IF st = None THEN Some(None)
    ELSE IF st.val.compiler_ctx = None THEN Some(None)
    ELSE Some(Some(CompletionArray(st.val.compiler_ctx.val)))

\* the closure registered for Initialize: its InitializeResult
InitializeResult ==
    Some([capabilities |->
            [definition_provider |-> TRUE, completion_provider |-> TRUE,
             text_document_sync |-> [open_close |-> TRUE, change |-> "FULL"]]])

\* the value of a handler that returns nothing, and of Response::new_ok(id, ())
Unit == [tag |-> "()"]

\* RequestDispatcher::new (invoked is the record of the handlers run)
RequestDispatcher_new(st, req) ==
    [state |-> st, req |-> req, handled |-> FALSE, resp |-> None, invoked |-> <<>>]

\* the text a didOpen or didChange handler hands to handle_new_content
NewContentOf(h, params) ==
    IF h = "didOpen"
        THEN params.text_document.text
        ELSE params.content_changes[1].text

\* the handlers handle_request registers, run on the State and the params
RunHandler(h, st, params) ==
    CASE h = "initialize" -> [state |-> st, result |-> InitializeResult]
      [] h \in {"didOpen", "didChange"} ->
            [state |-> handle_new_content(st, NewContentOf(h, params)),
             result |-> Unit]
      [] h = "completion" -> [state |-> st, result |-> completion_handler(st)]

\* the dispatcher after handler h ran with the outcome r, for a request
\* handler (its value becomes the response) and for a notification handler
on_done(d, h, r) ==
    [d EXCEPT !.state = r.state,
              !.resp = Some(Response_new_ok(d.req.id, r.result)),
              !.handled = TRUE,
              !.invoked = Append(@, h)]
on_notif_done(d, h, r) ==
    [d EXCEPT !.state = r.state,
              !.handled = TRUE,
              !.invoked = Append(@, h)]

\* RequestDispatcher::on that does not look at handled
on_IgnoresHandled(d, method, h) ==
    IF d.req.method = method
        THEN on_done(d, h, RunHandler(h, d.state, d.req.params))
        ELSE d

\* RequestDispatcher::on::<R>(handler)
on(d, method, h) ==
    IF d.handled THEN d
    ELSE IF d.req.method = method
        THEN on_done(d, h, RunHandler(h, d.state, d.req.params))
        ELSE d

\* RequestDispatcher::on_notif::<N>(handler)
on_notif(d, method, h) ==
    IF d.handled THEN d
    ELSE IF d.req.method = method
        THEN on_notif_done(d, h, RunHandler(h, d.state, d.req.params))
        ELSE d

\* handle_request with a handler registered for textDocument/definition
handle_request_WithDefinition(st, req) ==
    IF req.method = M_Definition
        THEN [RequestDispatcher_new(st, req) EXCEPT
                !.resp = Some(Response_new_ok(req.id, Some(None))),
                !.handled = TRUE]
        ELSE on(on_notif(on_notif(on(RequestDispatcher_new(st, req),
                    M_Initialize, "initialize"),
                    M_DidOpen, "didOpen"),
                    M_DidChange, "didChange"),
                    M_Completion, "completion")

\* handle_request: the dispatcher after the chain; dispatcher.resp is what
\* the function returns and dispatcher.state what it leaves in *state
handle_request(st, req) ==
    on(on_notif(on_notif(on(RequestDispatcher_new(st, req),
        M_Initialize, "initialize"),
        M_DidOpen, "didOpen"),
        M_DidChange, "didChange"),
        M_Completion, "completion")

ProtocolError == [tag |-> "ProtocolError"]

\* the receiver yields nothing within handle_shutdown's timeout
RecvTimeout == [kind |-> "Timeout"]

\* handle_shutdown that takes any next message for the exit notification
handle_shutdown_AnyExit(req, next) ==
    IF req.method # M_Shutdown
        THEN [res |-> Ok(FALSE), sent |-> <<>>, took |-> None]
        ELSE [res |-> Ok(TRUE), sent |-> <<Response_new_ok(req.id, Unit)>>,
              took |-> Some(next)]

\* Connection::handle_shutdown (lsp_server): false for a request that is not
\* shutdown; for shutdown it answers the request, receives the next message
\* and is true when that is the exit notification, an error otherwise
handle_shutdown(req, next) ==
    IF req.method # M_Shutdown
        THEN [res |-> Ok(FALSE), sent |-> <<>>, took |-> None]
        ELSE [res |-> IF next.kind = "Notification" /\ next.method = M_Exit
                        THEN Ok(TRUE) ELSE Err(ProtocolError),
              sent |-> <<Response_new_ok(req.id, Unit)>>,
              took |-> Some(next)]

\* the texts a client sends: one the parser rejects, and statement lists
\* that compile or fail at their first or second statement
LspPrograms ==
    {<<>>,
     <<VarDef("x", ENum("1"), FALSE)>>,
     <<VarDef("x", ENum("1"), FALSE), VarDef("y", EVariable("x"), FALSE)>>,
     <<VarDef("y", EVariable("x"), FALSE)>>,
     <<VarDef("x", ENum("1"), FALSE), ExprStmt(EVariable("y"))>>,
     <<ExprStmt(EVariable("y")), VarDef("x", ENum("1"), FALSE)>>,
     <<VarDef("x", ENum("1"), FALSE), ExprStmt(ECall(FnNormal("g"), <<ENum("1")>>)),
       ExprStmt(EVariable("y"))>>}
Texts == {BadSource} \cup {SourceOf(p) : p \in LspPrograms}

RequestIds == {2, 3}

Requests ==
    {Request(i, m, NoParams) :
        i \in RequestIds, m \in {M_Initialize, M_Completion, M_Definition, M_Shutdown}}
    \cup {Request(i, M_DidOpen, OpenParams(t)) : i \in RequestIds, t \in Texts}
    \cup {Request(i, M_DidChange, ChangeParams(t)) : i \in RequestIds, t \in Texts}
Responses == {Response_new_ok(i, Unit) : i \in RequestIds}
Notifications ==
    {Notification(m, NoParams) : m \in {M_Initialized, M_Exit}}
    \cup {Notification(M_DidOpen, OpenParams(t)) : t \in Texts}
    \cup {Notification(M_DidChange, ChangeParams(t)) : t \in Texts}
Messages == Requests \cup Responses \cup Notifications

\* main_loop is entered: connection.initialize has returned, state is None
LspInit ==
    /\ types = <<>>
    /\ op = "none"
    /\ arg = <<>>
    /\ ret = None
    /\ ctx = Context_new
    /\ call = None
    /\ cret = None
    /\ prog = <<>>
    /\ pc = 1
    /\ out = <<>>
    /\ err = None
    /\ state = None
    /\ loop = "running"
    /\ msg = None
    /\ reply = <<>>
    /\ swallowed = None
    /\ invoked = <<>>
    /\ requested = FALSE

\* one turn of main_loop for a Message::Request that is not shutdown
LoopRequest ==
    /\ loop = "running"
    /\ \E req \in Requests :
        /\ handle_shutdown(req, RecvTimeout).res.tag = "Ok"
        /\ ~handle_shutdown(req, RecvTimeout).res.val
        /\ \E d \in {handle_request(state, req)} :
            /\ state' = d.state
            /\ reply' = IF d.resp = None THEN <<>> ELSE <<d.resp.val>>
            /\ invoked' = d.invoked
        /\ msg' = Some(req)
    /\ requested' = TRUE
    /\ UNCHANGED <<typVars, ctx, callVars, compileVars, loop, swallowed>>

\* one turn of main_loop for the shutdown request: handle_shutdown answers
\* it and receives one more message; main_loop returns Ok or the error
LoopShutdown ==
    /\ loop = "running"
    /\ \E req \in Requests, next \in Messages \cup {RecvTimeout} :
        LET hs == handle_shutdown(req, next) IN
        /\ IF hs.res.tag = "Ok" THEN hs.res.val ELSE TRUE
        /\ loop' = IF hs.res.tag = "Err" THEN "Err" ELSE "Ok"
        /\ reply' = hs.sent
        /\ swallowed' = hs.took
        /\ msg' = Some(req)
    /\ invoked' = <<>>
    /\ requested' = TRUE
    /\ UNCHANGED <<typVars, ctx, callVars, compileVars, state>>

\* one turn of main_loop for a Message::Response
LoopResponse ==
    /\ loop = "running"
    /\ \E m \in Responses : msg' = Some(m)
    /\ reply' = <<>>
    /\ invoked' = <<>>
    /\ UNCHANGED <<typVars, ctx, callVars, compileVars, state, loop, swallowed,
                   requested>>

\* a Notification arm that hands the notification to the dispatcher chain
LoopNotification_Dispatches ==
    /\ loop = "running"
    /\ \E m \in Notifications :
        /\ msg' = Some(m)
        /\ \E d \in {handle_request(state, m)} :
            /\ state' = d.state
            /\ invoked' = d.invoked
    /\ reply' = <<>>
    /\ UNCHANGED <<typVars, ctx, callVars, compileVars, loop, swallowed,
                   requested>>

\* one turn of main_loop for a Message::Notification
LoopNotification ==
    /\ loop = "running"
    /\ \E m \in Notifications : msg' = Some(m)
    /\ reply' = <<>>
    /\ invoked' = <<>>
    /\ UNCHANGED <<typVars, ctx, callVars, compileVars, state, loop, swallowed,
                   requested>>

\* the receiver is disconnected: the for loop ends and main_loop returns Ok
LoopClosed ==
    /\ loop = "running"
    /\ loop' = "Ok"
    /\ UNCHANGED <<typVars, ctx, callVars, compileVars, state, msg, reply,
                   swallowed, invoked, requested>>

LspNext ==
    \/ LoopRequest
    \/ LoopShutdown
    \/ LoopResponse
    \/ LoopNotification
    \/ LoopClosed

SpecLsp == LspInit /\ [][LspNext]_vars

\* SpecBatch: compile_stmts on its own, or called by the language server
SpecBatch == (CompileInit \/ LspInit) /\ [][CompileNext \/ LspNext]_vars

(***************************************************************************)
(* SpecDispatch: one request handed through a drawn chain of               *)
(* RequestDispatcher registrations, one registration per step              *)
(***************************************************************************)
MaxChain == 4

\* one call of the chain: dispatcher.on::<R>(h) or dispatcher.on_notif::<N>(h),
\* where R or N fixes METHOD and the type of the handler's params
Registration(kind, method, h) == [kind |-> kind, method |-> method, h |-> h]

\* the registrations of handle_request, in its chain order
HandleRequestChain ==
    <<Registration("on", M_Initialize, "initialize"),
      Registration("on_notif", M_DidOpen, "didOpen"),
      Registration("on_notif", M_DidChange, "didChange"),
      Registration("on", M_Completion, "completion")>>

Registrations == {HandleRequestChain[j] : j \in 1..Len(HandleRequestChain)}

\* the dispatcher after the call reg
Register(d, reg) ==
    IF reg.kind = "on"
        THEN on(d, reg.method, reg.h)
        ELSE on_notif(d, reg.method, reg.h)

DispatchTexts == {BadSource, SourceOf(<<VarDef("x", ENum("1"), FALSE)>>)}

DispatchRequests ==
    {Request(i, m, NoParams) :
        i \in RequestIds, m \in {M_Initialize, M_Completion, M_Definition, M_Shutdown}}
    \cup {Request(i, M_DidOpen, OpenParams(t)) : i \in RequestIds, t \in DispatchTexts}
    \cup {Request(i, M_DidChange, ChangeParams(t)) : i \in RequestIds, t \in DispatchTexts}

\* the State the dispatcher borrows: nothing stored yet, or a compiled text
DispatchStates ==
    {None, handle_new_content(None, SourceOf(<<VarDef("y", ENum("1"), FALSE)>>))}

\* ret.d is the dispatcher, ret.k the registrations called so far and
\* ret.fired the positions in the chain of the calls that ran their handler
DispatchInit ==
    /\ types = <<>>
    /\ op = "dispatch"
    /\ \E req \in DispatchRequests, st \in DispatchStates,
          chain \in SeqsUpTo(Registrations, MaxChain) :
        /\ arg = <<req, chain, st>>
        /\ ret = [d |-> RequestDispatcher_new(st, req), k |-> 0, fired |-> <<>>]
    /\ ctx = Context_new
    /\ call = None
    /\ cret = None
    /\ prog = <<>>
    /\ pc = 1
    /\ out = <<>>
    /\ err = None
    /\ LspOff

Registered(before, k, d) ==
    [d |-> d, k |-> k,
     fired |-> IF Len(d.invoked) > Len(before.d.invoked)
                  THEN Append(before.fired, k)
                  ELSE before.fired]

\* the next call of the chain
DoRegister ==
    /\ op = "dispatch"
    /\ ret.k < Len(arg[2])
    /\ \E d \in {Register(ret.d, arg[2][ret.k + 1])} :
        ret' = Registered(ret, ret.k + 1, d)
    /\ UNCHANGED <<types, op, arg, ctx, callVars, compileVars, lspVars>>

DispatchNext == DoRegister

SpecDispatch == DispatchInit /\ [][DispatchNext]_vars

(***************************************************************************)
(* parser/src/main.rs: the expression parser                               *)
(*                                                                         *)
(* The input is a sequence of one-character strings; an offset i counts    *)
(* the characters already read, so the next character is chars[i + 1].     *)
(* A parser is an operator of the stream and an offset that gives           *)
(* Parsed(value, offset after it) or Fail, and an alternative or a          *)
(* repetition that fails resumes from the offset it started at.            *)
(***************************************************************************)
MaxOperands == 6

FILENO == 1234

Fail == [ok |-> FALSE]
Parsed(val, pos) == [ok |-> TRUE, val |-> val, pos |-> pos]

\* chumsky::Stream::from_iter in parse: the characters with their file
Stream(source, input) == [file |-> source, chars |-> input]

\* ast::Expression variants the parser builds
EBinaryExpr(left, operator, right) ==
    [tag |-> "BinaryExpr", left |-> left, operator |-> operator, right |-> right]
EUnaryExpr(val, operator) ==
    [tag |-> "UnaryExpr", val |-> val, operator |-> operator]

Whitespace == {" "}
NonZeroDigits == {"1", "2", "3", "4", "5", "6", "7", "8", "9"}
DigitChars == {"0"} \cup NonZeroDigits

PeekIs(s, i, cs) == i < Len(s.chars) /\ s.chars[i + 1] \in cs

\* .padded(): the blanks before and after a parser are read with it
RECURSIVE padded(_, _)
padded(s, i) == IF PeekIs(s, i, Whitespace) THEN padded(s, i + 1) ELSE i

\* p.or(q)
or(p, q) == IF p.ok THEN p ELSE q

\* just(c)
just(s, i, c) == IF PeekIs(s, i, {c}) THEN Parsed(c, i + 1) ELSE Fail

\* text::int(10): a single 0, or a nonzero digit and the digits after it
RECURSIVE digits_end(_, _)
digits_end(s, i) == IF PeekIs(s, i, DigitChars) THEN digits_end(s, i + 1) ELSE i

int_end(s, i) == IF PeekIs(s, i, {"0"}) THEN i + 1 ELSE digits_end(s, i)

RECURSIVE Text(_, _, _)
Text(s, i, e) == IF i >= e THEN "" ELSE s.chars[i + 1] \o Text(s, i + 1, e)

int_spanned(s, i, e) ==
    Parsed(<<Span_new(s.file, i, e), ENum(Text(s, i, e))>>, padded(s, e))

int_at(s, i) ==
    IF PeekIs(s, i, DigitChars) THEN int_spanned(s, i, int_end(s, i)) ELSE Fail

int(s, i) == int_at(s, padded(s, i))

\* the closure op: just(c).padded()
op_padded_at(s, i, c) ==
    IF PeekIs(s, i, {c}) THEN Parsed(c, padded(s, i + 1)) ELSE Fail

op_padded(s, i, c) == op_padded_at(s, padded(s, i), c)

RECURSIVE expr(_, _)

delimited_close(s, r) ==
    IF r.ok /\ PeekIs(s, r.pos, {")"}) THEN Parsed(r.val, r.pos + 1) ELSE Fail

\* expr.delimited_by(just('('), just(')')): the brackets are not padded
delimited_by(s, i) ==
    IF PeekIs(s, i, {"("}) THEN delimited_close(s, expr(s, i + 1)) ELSE Fail

atom(s, i) == or(int(s, i), delimited_by(s, i))

\* map_with_span of unary: the span runs from where the parser started to
\* the end of all that op('-') and atom read
negate_spanned(s, i, v) ==
    IF v.ok
        THEN Parsed(<<Span_new(s.file, i, v.pos), EUnaryExpr(v.val, "Negate")>>,
                    v.pos)
        ELSE Fail

negate(s, i, minus) ==
    IF minus.ok THEN negate_spanned(s, i, atom(s, minus.pos)) ELSE Fail

unary(s, i) == or(negate(s, i, op_padded(s, i, "-")), atom(s, i))

\* .to(ast::BinaryOperator::..)
to(p, operator) == IF p.ok THEN Parsed(operator, p.pos) ELSE Fail

mult_operator(s, i) ==
    or(to(op_padded(s, i, "*"), "Multiply"),
       or(to(op_padded(s, i, "/"), "Divide"),
          to(op_padded(s, i, "%"), "Mod")))

add_operator(s, i) ==
    or(to(op_padded(s, i, "+"), "Add"), to(op_padded(s, i, "-"), "Subtract"))

\* .repeated(): the items read and the offset after the last whole item
NoItems(i) == [items |-> <<>>, pos |-> i]
ItemThen(operator, rhs, rest) ==
    [items |-> <<<<operator, rhs>>>> \o rest.items, pos |-> rest.pos]

RECURSIVE mult_repeated(_, _)
mult_rhs(s, i, operator, rhs) ==
    IF rhs.ok
        THEN ItemThen(operator, rhs.val, mult_repeated(s, rhs.pos))
        ELSE NoItems(i)

mult_item(s, i, operator) ==
    IF operator.ok
        THEN mult_rhs(s, i, operator.val, unary(s, operator.pos))
        ELSE NoItems(i)

mult_repeated(s, i) == mult_item(s, i, mult_operator(s, i))

\* the closure of to_binary_exprs!: one BinaryExpr from lhs to rhs
binary_expr(lhs, operator, rhs, span) ==
    IF span.tag = "Some"
        THEN <<span.val, EBinaryExpr(lhs, operator, rhs)>>
        ELSE Panic

RECURSIVE to_binary_exprs_FoldRight(_, _)
to_binary_exprs_FoldRight(first, items) ==
    IF items = <<>>
        THEN first
        ELSE binary_expr(first, items[1][1],
                         to_binary_exprs_FoldRight(items[1][2], Tail(items)),
                         with_end_of(first[1], items[Len(items)][2][1]))

\* to_binary_exprs!: foldl over the first operand and the (operator, operand)
\* pairs after it
RECURSIVE to_binary_exprs(_, _)
to_binary_exprs(first, items) ==
    IF items = <<>>
        THEN first
        ELSE to_binary_exprs(binary_expr(first, items[1][1], items[1][2],
                                         with_end_of(first[1], items[1][2][1])),
                             Tail(items))

folded(first, rep) == Parsed(to_binary_exprs(first, rep.items), rep.pos)

mult_divide_from(s, first) ==
    IF first.ok THEN folded(first.val, mult_repeated(s, first.pos)) ELSE Fail

mult_divide(s, i) == mult_divide_from(s, unary(s, i))

RECURSIVE add_repeated(_, _)
add_rhs(s, i, operator, rhs) ==
    IF rhs.ok
        THEN ItemThen(operator, rhs.val, add_repeated(s, rhs.pos))
        ELSE NoItems(i)

add_item(s, i, operator) ==
    IF operator.ok
        THEN add_rhs(s, i, operator.val, mult_divide(s, operator.pos))
        ELSE NoItems(i)

add_repeated(s, i) == add_item(s, i, add_operator(s, i))

add_sub_from(s, first) ==
    IF first.ok THEN folded(first.val, add_repeated(s, first.pos)) ELSE Fail

add_sub(s, i) == add_sub_from(s, mult_divide(s, i))

\* the body of recursive(|expr| ..): add_sub.or(unary)
expr(s, i) == or(add_sub(s, i), unary(s, i))

SimpleErrors == [tag |-> "Simple"]

\* .then_ignore(end())
then_ignore_end(s, r) ==
    IF r.ok /\ r.pos = Len(s.chars) THEN Ok(r.val) ELSE Err(SimpleErrors)

parser(s) == then_ignore_end(s, expr(s, 0))

parse(source, input) == parser(Stream(source, input))

(***************************************************************************)
(* SpecParse: one drawn input text, parsed once                            *)
(***************************************************************************)
Digits == <<"1", "2", "3", "4", "5", "6", "7", "8", "9">>
AdditiveChars == {"+", "-"}
MultiplicativeChars == {"*", "/", "%"}
BinaryChars == AdditiveChars \cup MultiplicativeChars

\* operands 1, 2, .. joined by the operators ops; operand neg (if any) has a
\* minus sign before it, group puts operands 2 and 3 in brackets, spaced
\* puts a blank on each side of every + and - between operands
Chain(ops, neg, group, spaced) ==
    [tag |-> "Chain", ops |-> ops, neg |-> neg, group |-> group,
     spaced |-> spaced]

\* the minus sign stands before the first operand, before the second, or
\* nowhere: a negated operand is then the left and the right operand of
\* every operator
NegatedOperands == 0..2

WellFormed(c) == c.neg <= Len(c.ops) + 1 /\ (c.group => Len(c.ops) >= 2)

\* texts that are no expression
Raw(chars) == [tag |-> "Raw", chars |-> chars]
Malformed ==
    {Raw(<<>>), Raw(<<"1", "+">>), Raw(<<"(", "1">>), Raw(<<"1", ")">>),
     Raw(<<"1", " ", "2">>), Raw(<<"*", "1">>), Raw(<<"-", "-", "1">>),
     Raw(<<" ", "(", "1", ")">>), Raw(<<"0", "1">>)}

OperandChars(c, i) ==
    (IF c.neg = i THEN <<"-">> ELSE <<>>)
    \o (IF c.group /\ i = 2 THEN <<"(">> ELSE <<>>)
    \o <<Digits[i]>>
    \o (IF c.group /\ i = 3 THEN <<")">> ELSE <<>>)

OperatorChars(c, j) ==
    IF c.spaced /\ c.ops[j] \in AdditiveChars
        THEN <<" ", c.ops[j], " ">>
        ELSE <<c.ops[j]>>

RECURSIVE ChainChars(_, _)
ChainChars(c, i) ==
    OperandChars(c, i)
    \o (IF i > Len(c.ops)
            THEN <<>>
            ELSE OperatorChars(c, i) \o ChainChars(c, i + 1))

InputChars(in) == IF in.tag = "Chain" THEN ChainChars(in, 1) ELSE in.chars

ParseInit ==
    /\ types = <<>>
    /\ op = "none"
    /\ \/ \E o \in SeqsUpTo(BinaryChars, MaxOperands - 1), n \in NegatedOperands,
               g \in BOOLEAN, b \in BOOLEAN :
                /\ WellFormed(Chain(o, n, g, b))
                /\ arg = <<Chain(o, n, g, b)>>
       \/ \E in \in Malformed : arg = <<in>>
    /\ ret = None
    /\ ctx = Context_new
    /\ call = None
    /\ cret = None
    /\ prog = <<>>
    /\ pc = 1
    /\ out = <<>>
    /\ err = None
    /\ LspOff

\* main, and check_result of the tests: parse(FILENO, input)
DoParse ==
    /\ op = "none"
    /\ Len(arg) = 1
    /\ arg[1].tag \in {"Chain", "Raw"}
    /\ op' = "parse"
    /\ ret' = parse(FILENO, InputChars(arg[1]))
    /\ UNCHANGED <<types, arg, ctx, callVars, compileVars, lspVars>>

ParseNext == DoParse

SpecParse == ParseInit /\ [][ParseNext]_vars

(***************************************************************************)
(* Claims about the type kernel, checked under SpecTyp                      *)
(***************************************************************************)
ListWeakTyps == {List, MappedList}

\* C1: combine_types(a, b) is List exactly when a or b is list-weak (List or
\* MappedList) and Num otherwise, so it is Num only for (Num, Num).
Thm_C1_CombineTypes ==
    op = "combine_types" =>
        /\ ret = (IF arg[1] \in ListWeakTyps \/ arg[2] \in ListWeakTyps
                    THEN List ELSE Num)
        /\ (ret = List <=> (is_list_weak(arg[1]) \/ is_list_weak(arg[2])))
        /\ (ret = Num <=> arg = <<Num, Num>>)

Wit_C1_CombineTypes ==
    op = "combine_types" /\ arg = <<Num, MappedList>> /\ ret = List

\* C2: eq_weak(self, other): Num accepts Num and MappedList, List accepts
\* only List, MappedList accepts Num and MappedList; so
\* MappedList.eq_weak(List) is false and MappedList.eq_weak(Num) is true.
Thm_C2_EqWeak ==
    op = "eq_weak" =>
        ret = CASE arg[1] = Num -> arg[2] \in {Num, MappedList}
                [] arg[1] = List -> arg[2] = List
                [] arg[1] = MappedList -> arg[2] \in {Num, MappedList}

Wit_C2_EqWeak ==
    op = "eq_weak" /\ arg = <<MappedList, List>> /\ ret = FALSE

\* C4: TryFrom<Typ> for ValType fails for MappedList and only for it (Num
\* gives Number, List gives List); From<ValType> for Typ never gives
\* MappedList, and ValType -> Typ -> ValType is the identity.
Thm_C4_Conversions ==
    /\ op = "try_from" =>
            /\ (ret.tag = "Err" <=> arg[1] = MappedList)
            /\ (arg[1] = Num => ret = Ok(Number))
            /\ (arg[1] = List => ret = Ok(VList))
    /\ op = "from" =>
            /\ ret \in {Num, List}
            /\ ValType_try_from(ret) = Ok(arg[1])

Wit_C4_Conversions ==
    op = "try_from" /\ arg = <<MappedList>> /\ ret = Err("()")

\* C5 as stated: whenever the expected type e accepts Num or accepts List
\* under eq_weak, it accepts MappedList too.
Orig_C5_MappedListNeverRejected ==
    (op = "eq_weak" /\ arg[2] = MappedList) =>
        ((eq_weak(arg[1], Num) \/ eq_weak(arg[1], List)) => ret = TRUE)

\* C5 amended: whenever the expected type e accepts Num under eq_weak it
\* accepts MappedList too (an expected List accepts List alone and rejects
\* MappedList), and combine_types returns a Typ, never failing, with
\* MappedList in either operand position.
Thm_C5_MappedListAcceptedAsNum ==
    /\ (op = "eq_weak" /\ arg[2] = MappedList) =>
            /\ (eq_weak(arg[1], Num) => ret = TRUE)
            /\ (arg[1] = List => ret = FALSE)
    /\ (op = "combine_types" /\ MappedList \in {arg[1], arg[2]}) =>
            ret \in Typ

Wit_C5_MappedListAcceptedAsNum ==
    op = "eq_weak" /\ arg = <<Num, MappedList>> /\ ret = TRUE

\* C7: binop_exprs returns the type combine_types gives; a list-weak left
\* operand gives back its span and provenance with type List, else a
\* list-weak right operand gives back its span and provenance with type
\* List, else (both Num) the type is Num, the provenance BinOp(left span,
\* right span) and the span runs from the left span's start to the right
\* span's end.
Thm_C7_BinopExprs ==
    op = "binop_exprs" =>
        LET l == arg[1]
            r == arg[2]
        IN  /\ ret # Panic
            /\ ret.typ = combine_types(l.typ, r.typ)
            /\ IF l.typ \in ListWeakTyps
                    THEN ret = Triple(l.span, List, l.info)
                ELSE IF r.typ \in ListWeakTyps
                    THEN ret = Triple(r.span, List, r.info)
                ELSE /\ ret.typ = Num
                     /\ ret.info = BinOp(l.span, r.span)
                     /\ ret.span = Span_new(l.span.file_id, l.span.start, r.span.end)

Wit_C7_BinopExprs ==
    /\ op = "binop_exprs"
    /\ arg[1].typ = Num /\ arg[2].typ = Num
    /\ arg[1].span.start = 0 /\ arg[1].span.end = 0
    /\ arg[2].span.start = 1 /\ arg[2].span.end = 1
    /\ ret.span.start = 0 /\ ret.span.end = 1

\* the left-to-right fold of combine_types over the types of s[i..]
RECURSIVE FoldCombine(_, _, _)
FoldCombine(acc, s, i) ==
    IF i > Len(s) THEN acc
    ELSE FoldCombine(combine_types(acc, s[i].typ), s, i + 1)

\* C8: the type of a Piecewise is the left-to-right fold of combine_types
\* over its branch values and default: List if any of them is list-weak,
\* wherever it stands, and Num if all are Num; [Num, Num, List] with default
\* Num gives List.
Thm_C8_Piecewise ==
    op = "piecewise" =>
        /\ ret = FoldCombine(arg[1].typ, arg, 2)
        /\ ret = (IF \E i \in 1..Len(arg) : arg[i].typ \in ListWeakTyps
                    THEN List ELSE Num)

Wit_C8_Piecewise ==
    /\ op = "piecewise"
    /\ Len(arg) = 4
    /\ <<arg[1].typ, arg[2].typ, arg[3].typ, arg[4].typ>> = <<Num, Num, List, Num>>
    /\ ret = List

\* C16: is_num_weak is true exactly for Num and MappedList, is_list_weak
\* exactly for List and MappedList, is_num_strict exactly for Num; every Typ
\* is num-weak or list-weak, MappedList is the only one that is both, and
\* is_num_strict implies is_num_weak and excludes is_list_weak.
Thm_C16_WeakPredicates ==
    op = "is_weak" =>
        /\ ret.is_num_weak = (arg[1] \in {Num, MappedList})
        /\ ret.is_list_weak = (arg[1] \in {List, MappedList})
        /\ ret.is_num_strict = (arg[1] = Num)
        /\ ret.is_num_weak \/ ret.is_list_weak
        /\ (ret.is_num_weak /\ ret.is_list_weak) <=> arg[1] = MappedList
        /\ ret.is_num_strict => (ret.is_num_weak /\ ~ret.is_list_weak)

Wit_C16_WeakPredicates ==
    /\ op = "is_weak"
    /\ arg = <<MappedList>>
    /\ ret.is_num_weak /\ ret.is_list_weak /\ ~ret.is_num_strict

\* the position of the leftmost list-weak element of s
LeftmostListWeak(s) ==
    CHOOSE j \in 1..Len(s) :
        /\ s[j].typ \in ListWeakTyps
        /\ \A i \in 1..(j - 1) : s[i].typ \notin ListWeakTyps

\* C23: reduce_with_binop_exprs returns None exactly for an empty input and
\* a one-element input unchanged (a lone MappedList stays MappedList); for
\* two or more elements of which one is list-weak, the span and provenance
\* returned are those of the leftmost list-weak element, whatever stands to
\* its right.
Thm_C23_ReduceLeftmost ==
    op = "reduce_with_binop_exprs" =>
        /\ ret = None <=> arg = <<>>
        /\ Len(arg) = 1 => ret = Some(arg[1])
        /\ (Len(arg) >= 2 /\ \E i \in 1..Len(arg) : arg[i].typ \in ListWeakTyps) =>
                /\ ret.tag = "Some"
                /\ ret.val # Panic
                /\ ret.val.span = arg[LeftmostListWeak(arg)].span
                /\ ret.val.info = arg[LeftmostListWeak(arg)].info
                /\ ret.val.typ = List

\* [Num, MappedList, List] with the two list-weak elements at different
\* spans: the result carries the MappedList's span and provenance
Wit_C23_ReduceLeftmost ==
    /\ op = "reduce_with_binop_exprs"
    /\ Len(arg) = 3
    /\ <<arg[1].typ, arg[2].typ, arg[3].typ>> = <<Num, MappedList, List>>
    /\ arg[2].span # arg[3].span
    /\ arg[1].span # arg[2].span
    /\ ret = Some(Triple(arg[2].span, List, arg[2].info))

\* a lone MappedList is returned as it is
Wit_C23_LoneMappedList ==
    /\ op = "reduce_with_binop_exprs"
    /\ Len(arg) = 1
    /\ arg[1].typ = MappedList
    /\ ret = Some(arg[1])

(***************************************************************************)
(* Claims about call sites, checked under SpecCall                          *)
(***************************************************************************)
\* what the drawn call's name resolves to in the drawn Context
CallResolved == resolve_function(ctx, func_name(call.func), call.span)

\* the drawn call resolves to a Normal function with a Static signature
CallIsStatic ==
    /\ CallResolved # None
    /\ CallResolved.val.tag = "Normal"
    /\ CallResolved.val.func.args.tag = "Static"

CallExpected == CallResolved.val.func.args.types

\* a declared slot accepts a type: Number takes Num and MappedList, List
\* takes List alone
SlotAccepts(slot, t) ==
    \/ slot = Number /\ t \in {Num, MappedList}
    \/ slot = VList /\ t = List

EntryDeclares(b, e) ==
    /\ e.ret = Number
    /\ e.args.tag = "Variadic" <=> b \in {"lcm", "gcd"}
    /\ e.args.tag = "Static" =>
            /\ Len(e.args.types) \in {1, 2}
            /\ \A i \in 1..Len(e.args.types) : e.args.types[i] \in {Number, VList}

\* C24: every entry of BUILTIN_FUNCTIONS declares return type Number, join,
\* sort and shuffle included; lcm and gcd are the only Variadic entries, and
\* every other entry is Static with one or two slots, each Number or List.
Thm_C24_BuiltinTable ==
    /\ \A b \in DOMAIN BUILTIN_FUNCTIONS : EntryDeclares(b, BUILTIN_FUNCTIONS[b])
    /\ {"join", "sort", "shuffle", "lcm", "gcd"} \subseteq DOMAIN BUILTIN_FUNCTIONS
    /\ (op = "get" /\ ret # None) => EntryDeclares(arg[1], ret.val)

\* the entry looked up for join takes two Lists and returns Number
Wit_C24_BuiltinTable ==
    /\ op = "get"
    /\ arg = <<"join">>
    /\ ret = Some([args |-> Static(<<VList, VList>>), ret |-> Number])

\* the entry looked up for gcd is Variadic and returns Number
Wit_C24_Variadic ==
    /\ op = "get"
    /\ arg = <<"gcd">>
    /\ ret = Some([args |-> Variadic, ret |-> Number])

(***************************************************************************)
(* Claims about statement lists, checked under SpecCompile                  *)
(***************************************************************************)
\* statement k is an expression statement calling name u
IsCallOf(k, u) ==
    /\ prog[k].tag = "Expression"
    /\ prog[k].expr.tag = "Call"
    /\ func_name(prog[k].expr.func) = u

\* a FuncDef of u stands before statement k
FuncDefinedBefore(k, u) ==
    \E j \in 1..(k - 1) : prog[j].tag = "FuncDef" /\ prog[j].def.name = u

\* a VarDef of v stands before statement k
VarDefinedBefore(k, v) ==
    \E j \in 1..(k - 1) : prog[j].tag = "VarDef" /\ prog[j].name = v

\* C9: a call of a name resolves to the user definition (Inline, or Normal
\* with is_builtin false) whenever a FuncDef of that name was compiled
\* earlier, also for a builtin's name such as sin; the builtin (is_builtin
\* true) is chosen when there is no user definition, and a name in neither
\* namespace fails with UnknownFunction.
Thm_C9_UserShadowsBuiltin ==
    \A k \in 1..Len(out) : \A u \in CalledNames :
        IsCallOf(k, u) =>
            IF FuncDefinedBefore(k, u)
                THEN /\ out[k].tag = "Ok"
                     /\ \/ out[k].val.resolved.tag = "Inline"
                        \/ /\ out[k].val.resolved.tag = "Normal"
                           /\ out[k].val.resolved.is_builtin = FALSE
            ELSE IF u \in DOMAIN BuiltinEntries
                THEN /\ out[k].tag = "Ok"
                     /\ out[k].val.resolved.tag = "Normal"
                     /\ out[k].val.resolved.is_builtin = TRUE
            ELSE out[k] = Err(UnknownFunction(StmtSpan(k), u))

Wit_C9_UserShadowsBuiltin ==
    /\ Len(out) = 2
    /\ prog[1].tag = "FuncDef" /\ prog[1].def.name = "sin" /\ ~prog[1].def.inline
    /\ IsCallOf(2, "sin")
    /\ out[2].tag = "Ok"
    /\ out[2].val.resolved.tag = "Normal"
    /\ out[2].val.resolved.is_builtin = FALSE

\* the variable an expression statement, a VarDef's value or a FuncDef's
\* body refers to outside the function's own parameters, or None
ReferredVar(s) ==
    LET e == CASE s.tag = "VarDef" -> s.val
               [] s.tag = "FuncDef" -> s.body
               [] s.tag = "Expression" -> s.expr
    IN  IF e.tag = "Variable"
            /\ ~(s.tag = "FuncDef"
                 /\ \E j \in 1..Len(s.def.args) : s.def.args[j].name = e.name)
            THEN Some(e.name)
            ELSE None

\* C10: statements are compiled in order in one pass; a binding is in the
\* Context before the next statement is compiled and only later statements
\* see it: a reference to a variable or function that no earlier statement
\* defines fails (UnknownVariable / UnknownFunction) even when a later
\* statement defines it, a VarDef's value is lowered before its own
\* insertion, so a first definition that refers to itself fails, and the
\* Context holds the bindings of the statements compiled so far and no
\* others.
Thm_C10_SinglePass ==
    /\ \A k \in 1..Len(out) :
        /\ ReferredVar(prog[k]) # None =>
            IF VarDefinedBefore(k, ReferredVar(prog[k]).val)
                THEN out[k].tag = "Ok"
                ELSE /\ out[k].tag = "Err"
                     /\ out[k].val.kind = "UnknownVariable"
                     /\ out[k].val.name = ReferredVar(prog[k]).val
        /\ \A u \in CalledNames \ DOMAIN BuiltinEntries :
            (IsCallOf(k, u) /\ ~FuncDefinedBefore(k, u)) =>
                out[k] = Err(UnknownFunction(StmtSpan(k), u))
    /\ LET done == {k \in 1..Len(out) : out[k].tag = "Ok"} IN
        /\ (DOMAIN ctx.variables) \cup (DOMAIN ctx.inline_vals) =
                {prog[k].name : k \in {j \in done : prog[j].tag = "VarDef"}}
        /\ (DOMAIN ctx.defined_functions) \cup (DOMAIN ctx.inline_fns) =
                {prog[k].def.name : k \in {j \in done : prog[j].tag = "FuncDef"}}

Wit_C10_SinglePass ==
    /\ Len(prog) = 2
    /\ prog[1] = ExprStmt(EVariable("x"))
    /\ prog[2] = VarDef("x", ENum("1"), FALSE)
    /\ out = <<Err(UnknownVariable(StmtSpan(1), "x"))>>
    /\ err # None

\* the parameter of the FuncDef s that its body names, or None
ShadowingParam(s) ==
    IF s.tag = "FuncDef" /\ s.body.tag = "Variable"
        /\ \E j \in 1..Len(s.def.args) : s.def.args[j].name = s.body.name
        THEN Some(CHOOSE a \in {s.def.args[j] : j \in 1..Len(s.def.args)} :
                    a.name = s.body.name)
        ELSE None

\* C11: a variable is looked up in locals first and in variables second, a
\* miss in both being UnknownVariable: inside a function body a parameter
\* shadows a global of the same name; when the FuncDef has been compiled,
\* successfully or not, locals are what they were before it, so a later
\* statement does not see the parameter and sees the shadowed global again.
Thm_C11_LocalsShadowAndRestore ==
    /\ ctx.locals = EmptyMap
    /\ \A k \in 1..Len(out) :
        /\ ShadowingParam(prog[k]) # None =>
            /\ out[k].tag = "Ok"
            /\ out[k].val.typ = (IF ShadowingParam(prog[k]).val.typ = VList
                                    THEN List ELSE Num)
            /\ out[k].val.info.tag = "InlineFuncArg"
        /\ ReferredVar(prog[k]) # None =>
            IF VarDefinedBefore(k, ReferredVar(prog[k]).val)
                THEN /\ out[k].tag = "Ok"
                     /\ out[k].val.typ = Num
                     /\ out[k].val.info.tag # "InlineFuncArg"
                ELSE out[k].tag = "Err"
                     /\ out[k].val.kind = "UnknownVariable"
                     /\ out[k].val.name = ReferredVar(prog[k]).val

Wit_C11_LocalsShadowAndRestore ==
    /\ prog = <<VarDef("x", ENum("1"), FALSE),
                FuncDef(FunctionDefinition("h", ParamsX, None, FALSE), EVariable("x")),
                ExprStmt(EVariable("x"))>>
    /\ Len(out) = 3
    /\ out[2].tag = "Ok" /\ out[2].val.typ = List
    /\ out[3].tag = "Ok" /\ out[3].val.typ = Num
    /\ ctx.locals = EmptyMap

(***************************************************************************)
(* Claims about imports and modules, checked under SpecImport               *)
(***************************************************************************)
\* statement k is an expression statement that is a module-qualified name
IsQualified(k) ==
    prog[k].tag = "Expression" /\ prog[k].expr.tag = "FullyQualifiedVariable"

\* an Import binding the module name stands before statement k
ImportedBefore(k, name) ==
    \E j \in 1..(k - 1) : prog[j].tag = "Import" /\ prog[j].mode = ModeImport(name)

\* the items the one module that loads and compiles (lib) defines
LibItems == {"v"}

\* C13: module access is one level deep and fails explicitly: with a path
\* of length 1 naming an imported module, an item the module lacks is an
\* unknown-name error (no crash, no fallback to the current scope's
\* variables); a first path element that is not in modules is
\* UnknownModule; any path longer than 1 is InvalidModulePath.
Thm_C13_ModuleAccess ==
    \A k \in 1..Len(out) :
        IsQualified(k) =>
            LET e == prog[k].expr IN
            IF Len(e.path) > 1
                THEN out[k] = Err(InvalidModulePath(StmtSpan(k)))
            ELSE IF ~ImportedBefore(k, e.path[1])
                THEN out[k] = Err(UnknownModule(StmtSpan(k), e.path[1]))
            ELSE IF e.item \in LibItems
                THEN out[k].tag = "Ok" /\ out[k].val.typ = Num
            ELSE out[k] = Err(UnknownVariable(StmtSpan(k), e.item))

Wit_C13_ModuleAccess ==
    /\ prog = <<VarDef("x", ENum("1"), FALSE), Import("lib", ModeImport("m")),
                ExprStmt(EFullyQualifiedVariable(<<"m">>, "x"))>>
    /\ Len(out) = 3
    /\ "x" \in DOMAIN ctx.variables
    /\ "m" \in DOMAIN ctx.modules
    /\ out[3] = Err(UnknownVariable(StmtSpan(3), "x"))

\* the paths the file Loader answers with statements, and the others
LoadedPaths == {"lib", "broken"}

\* the binding a compiled lib leaves in the Context it was compiled into
LibBinding == [typ |-> Number, info |-> Literal("Numeric", ValSpan(1))]

\* what one step that compiles an Import against a Loader that answers does
ImportStepEffect ==
    LET s == prog[pc]
        res == out'[Len(out')]
    IN
    IF s.path \notin LoadedPaths
        THEN /\ res = Err(UnresolvedImport(StmtSpan(pc), s.path))
             /\ err' = Some(res.val)
             /\ ctx' = ctx
    ELSE IF s.path = "broken"
        THEN /\ res = Err(UnknownVariable(StmtSpan(2), "nope"))
             /\ ctx'.modules = ctx.modules
    ELSE IF s.mode.tag = "Import"
        THEN /\ res.tag = "Ok"
             /\ ctx' = [ctx EXCEPT !.modules = (s.mode.name :> ctx'.modules[s.mode.name]) @@ @]
             /\ ctx'.modules[s.mode.name] =
                    [variables |-> ("v" :> LibBinding),
                     locals |-> EmptyMap,
                     defined_functions |-> EmptyMap,
                     inline_vals |-> EmptyMap,
                     inline_fns |-> EmptyMap,
                     modules |-> EmptyMap,
                     loader |-> ctx.loader]
    ELSE /\ res.tag = "Ok"
         /\ ctx' = [ctx EXCEPT !.variables = ("v" :> LibBinding) @@ @]

\* C14: Import { name } compiles the loaded statements into a fresh child
\* Context and changes the current Context only at modules[name]; Include
\* compiles them into the current Context and leaves modules as it was;
\* when the Loader returns None the statement fails with UnresolvedImport,
\* nothing is inserted, and compilation stops there (no retry).
Thm_C14_ImportEffect ==
    /\ [](err # None => ~ENABLED CompileStmt)
    /\ [][(/\ pc <= Len(prog)
            /\ prog[pc].tag = "Import"
            /\ ctx.loader.tag = "FileLoader"
            /\ Len(out') = Len(out) + 1) => ImportStepEffect]_vars

Wit_C14_ImportEffect ==
    /\ prog = <<VarDef("x", ENum("1"), FALSE), Import("lib", ModeImport("m")),
                Import("lib", ModeInclude)>>
    /\ Len(out) = 3
    /\ out[3].tag = "Ok"
    /\ DOMAIN ctx.modules = {"m"}
    /\ DOMAIN ctx.modules["m"].variables = {"v"}
    /\ DOMAIN ctx.variables = {"x", "v"}

\* the state after an Import whose Loader returned None
Wit_C14_Unresolved ==
    /\ Len(out) = 1
    /\ prog[1] = Import("missing", ModeImport("m"))
    /\ out[1] = Err(UnresolvedImport(StmtSpan(1), "missing"))
    /\ ctx.modules = EmptyMap

\* C15 as stated: every failure of load and parse_source is a None that
\* becomes an unresolved-import error, for every Loader a Context can hold,
\* the default one of Context::new() included: compiling an Import yields a
\* value or an error and a call of parse_source yields Some or None, never
\* an abort.
Orig_C15_LoaderFailureIsNone ==
    /\ \A k \in 1..Len(out) :
            prog[k].tag = "Import" => out[k].tag \in {"Ok", "Err"}
    /\ op = "parse_source" => ret.tag \in {"Some", "None"}

(***************************************************************************)
(* Claims about batch compilation and the language server                   *)
(***************************************************************************)
\* statement k of the list p cannot compile after the statements before it:
\* it refers to a variable no earlier VarDef binds, or calls a function
\* that is no builtin and that no earlier FuncDef defines
FailsIn(p, k) ==
    \/ /\ ReferredVar(p[k]) # None
       /\ ~\E j \in 1..(k - 1) :
            p[j].tag = "VarDef" /\ p[j].name = ReferredVar(p[k]).val
    \/ /\ p[k].tag = "Expression" /\ p[k].expr.tag = "Call"
       /\ func_name(p[k].expr.func) \notin DOMAIN BuiltinEntries
       /\ ~\E j \in 1..(k - 1) :
            p[j].tag = "FuncDef" /\ p[j].def.name = func_name(p[k].expr.func)

\* the first statement of p that fails, or 0
FirstFailing(p) ==
    IF \E k \in 1..Len(p) : FailsIn(p, k)
        THEN CHOOSE k \in 1..Len(p) :
                FailsIn(p, k) /\ \A j \in 1..(k - 1) : ~FailsIn(p, j)
        ELSE 0

\* the error of statement k of p when it is the first that fails
ErrorOf(p, k) ==
    IF ReferredVar(p[k]) # None
        THEN UnknownVariable(IF p[k].tag = "Expression" THEN StmtSpan(k) ELSE ValSpan(k),
                             ReferredVar(p[k]).val)
        ELSE UnknownFunction(StmtSpan(k), func_name(p[k].expr.func))

\* the variables the statements of p before index k bind
BoundBefore(p, k) ==
    {p[j].name : j \in {i \in 1..(k - 1) : p[i].tag = "VarDef"}}

\* the message handled last is a request of a method that carries new text
IsNewContent ==
    /\ msg # None
    /\ msg.val.kind = "Request"
    /\ msg.val.method \in {M_DidOpen, M_DidChange}

\* the text that request carries
NewText ==
    IF msg.val.method = M_DidOpen
        THEN msg.val.params.text_document.text
        ELSE msg.val.params.content_changes[1].text

\* C12: batch compilation stops at the first failing statement: the error
\* returned is that statement's, no statement after it is compiled and no
\* binding of a later statement is inserted; the language server then
\* stores compiler_err and no Context for that content.
Thm_C12_StopsAtFirstError ==
    /\ \A k \in 1..(Len(out) - 1) : out[k].tag = "Ok"
    /\ Len(out) <= Len(prog)
    /\ FirstFailing(prog) # 0 => Len(out) <= FirstFailing(prog)
    /\ err # None =>
        /\ Len(out) = FirstFailing(prog)
        /\ err = Some(ErrorOf(prog, Len(out)))
        /\ out[Len(out)] = Err(err.val)
        /\ ~ENABLED CompileStmt
        /\ (DOMAIN ctx.variables) \cup (DOMAIN ctx.inline_vals)
                = BoundBefore(prog, Len(out))
    /\ (err = None /\ Len(out) = Len(prog)) => FirstFailing(prog) = 0
    /\ (IsNewContent /\ NewText.tag = "Source") =>
        LET p == NewText.stmts IN
        IF FirstFailing(p) # 0
            THEN /\ state.val.compiler_err = Some(ErrorOf(p, FirstFailing(p)))
                 /\ state.val.compiler_ctx = None
            ELSE state.val.compiler_err = None

Wit_C12_StopsAtFirstError ==
    /\ IsNewContent
    /\ NewText = SourceOf(<<ExprStmt(EVariable("y")), VarDef("x", ENum("1"), FALSE)>>)
    /\ state.val.compiler_err = Some(UnknownVariable(StmtSpan(1), "y"))
    /\ state.val.compiler_ctx = None

\* a statement list whose second of three statements failed
Wit_C12_LoopStopped ==
    /\ Len(prog) = 3
    /\ Len(out) = 2
    /\ err # None
    /\ prog[3].tag = "VarDef"

\* the exit notification
ExitNotification == Notification(M_Exit, NoParams)

\* C17 as stated: once the server is in its main loop, every
\* textDocument/definition request is answered: the server sends a response
\* that carries the request's id.
Orig_C17_DefinitionAnswered ==
    (msg # None /\ msg.val.kind = "Request" /\ msg.val.method = M_Definition) =>
        \E j \in 1..Len(reply) : reply[j].id = msg.val.id

\* the message handled last is the shutdown request
IsShutdown ==
    msg # None /\ msg.val.kind = "Request" /\ msg.val.method = M_Shutdown

\* C18 as stated: on a shutdown request main_loop leaves the loop and
\* returns Ok.
Orig_C18_ShutdownReturnsOk ==
    IsShutdown => loop = "Ok"

\* C18, amended: on a shutdown request main_loop leaves the loop, returning
\* Ok when the message handle_shutdown receives next is the exit notification
\* and its error otherwise; either way the request is not dispatched to
\* handle_request, the state is not changed by it or after it, and nothing
\* that arrives later is handled or answered (the one response is
\* handle_shutdown's own answer to the shutdown request).
Thm_C18_ShutdownLeavesLoop ==
    /\ [](IsShutdown =>
            /\ loop \in {"Ok", "Err"}
            /\ loop = "Ok" <=> swallowed = Some(ExitNotification)
            /\ invoked = <<>>
            /\ reply = <<Response_new_ok(msg.val.id, Unit)>>)
    /\ [](loop # "running" => ~ENABLED LspNext)
    /\ [][loop' # "running" => state' = state]_vars
    /\ [][loop # "running" => UNCHANGED <<state, msg, reply, invoked, loop>>]_vars

Wit_C18_ShutdownLeavesLoop ==
    /\ IsShutdown
    /\ loop = "Ok"
    /\ swallowed = Some(ExitNotification)
    /\ state # None

\* exactly one of the three fields of a StateVal is set
ExactlyOneSet(sv) ==
    Cardinality({f \in {"parse_err", "compiler_err", "compiler_ctx"} :
                    sv[f] # None}) = 1

\* the message handled last is a completion request
IsCompletion ==
    msg # None /\ msg.val.kind = "Request" /\ msg.val.method = M_Completion

Wit_C20_FailingEdit ==
    /\ IsNewContent
    /\ NewText = SourceOf(<<VarDef("y", EVariable("x"), FALSE)>>)
    /\ state = Some(StateVal(None, Some(UnknownVariable(ValSpan(1), "x")), None))

(***************************************************************************)
(* Claims about the expression parser, checked under SpecParse             *)
(***************************************************************************)
OperatorOf(c) ==
    CASE c = "+" -> "Add"
      [] c = "-" -> "Subtract"
      [] c = "*" -> "Multiply"
      [] c = "/" -> "Divide"
      [] c = "%" -> "Mod"

\* an expression without its spans
RECURSIVE Strip(_)
Strip(le) ==
    CASE le[2].tag = "BinaryExpr" ->
            EBinaryExpr(Strip(le[2].left), le[2].operator, Strip(le[2].right))
      [] le[2].tag = "UnaryExpr" ->
            EUnaryExpr(Strip(le[2].val), le[2].operator)
      [] OTHER -> le[2]

Negated(is_neg, e) == IF is_neg THEN EUnaryExpr(e, "Negate") ELSE e

\* what operand i of the chain c stands for, and what its bracketed group does
OperandTree(c, i) ==
    Negated(c.neg = i /\ ~(c.group /\ i = 2), ENum(Digits[i]))

GroupTree(c) ==
    Negated(c.neg = 2,
            EBinaryExpr(OperandTree(c, 2), OperatorOf(c.ops[2]),
                        OperandTree(c, 3)))

\* the operands and operators of c outside its brackets
TopOperands(c) ==
    IF c.group
        THEN <<OperandTree(c, 1), GroupTree(c)>>
             \o [k \in 1..(Len(c.ops) - 2) |-> OperandTree(c, k + 3)]
        ELSE [k \in 1..(Len(c.ops) + 1) |-> OperandTree(c, k)]

TopOps(c) ==
    IF c.group
        THEN <<c.ops[1]>> \o SubSeq(c.ops, 3, Len(c.ops))
        ELSE c.ops

\* the operator applied last: the rightmost + or -, and the rightmost
\* operator when there is no + or -
RootPos(ops) ==
    IF \E j \in 1..Len(ops) : ops[j] \in AdditiveChars
        THEN CHOOSE j \in 1..Len(ops) :
                /\ ops[j] \in AdditiveChars
                /\ \A k \in (j + 1)..Len(ops) : ops[k] \notin AdditiveChars
        ELSE Len(ops)

RECURSIVE Grouping(_, _)
GroupingAt(operands, ops, p) ==
    EBinaryExpr(Grouping(SubSeq(operands, 1, p), SubSeq(ops, 1, p - 1)),
                OperatorOf(ops[p]),
                Grouping(SubSeq(operands, p + 1, Len(operands)),
                         SubSeq(ops, p + 1, Len(ops))))

\* the expression a chain of operands denotes when * / % bind tighter than
\* + and -, and operators of one level group from the left
Grouping(operands, ops) ==
    IF ops = <<>> THEN operands[1] ELSE GroupingAt(operands, ops, RootPos(ops))

Expected(c) == Grouping(TopOperands(c), TopOps(c))

\* C19: in the parsed expression * / % bind tighter than binary + and -, a
\* unary minus binds tighter than every binary operator, and operators of
\* one level group from the left; a text that is no expression is an error.
Thm_C19_Precedence ==
    op = "parse" =>
        IF arg[1].tag = "Chain"
            THEN ret.tag = "Ok" /\ Strip(ret.val) = Expected(arg[1])
            ELSE ret.tag = "Err"

S(start, end) == Span_new(FILENO, start, end)

\* "1*2 - 3/4 + 5%6" is ((1*2) - (3/4)) + (5%6), with the spans of the test
Wit_C19_Precedence ==
    /\ op = "parse"
    /\ arg[1] = Chain(<<"*", "-", "/", "+", "%">>, 0, FALSE, TRUE)
    /\ ret = Ok(
        <<S(0, 15), EBinaryExpr(
            <<S(0, 9), EBinaryExpr(
                <<S(0, 3), EBinaryExpr(<<S(0, 1), ENum("1")>>, "Multiply",
                                       <<S(2, 3), ENum("2")>>)>>,
                "Subtract",
                <<S(6, 9), EBinaryExpr(<<S(6, 7), ENum("3")>>, "Divide",
                                       <<S(8, 9), ENum("4")>>)>>)>>,
            "Add",
            <<S(12, 15), EBinaryExpr(<<S(12, 13), ENum("5")>>, "Mod",
                                     <<S(14, 15), ENum("6")>>)>>)>>)

\* "-1 + 2" is (-1) + 2, with the spans of the test
Wit_C19_Negate ==
    /\ op = "parse"
    /\ arg[1] = Chain(<<"+">>, 1, FALSE, TRUE)
    /\ ret = Ok(
        <<S(0, 6), EBinaryExpr(
            <<S(0, 3), EUnaryExpr(<<S(1, 2), ENum("1")>>, "Negate")>>,
            "Add",
            <<S(5, 6), ENum("2")>>)>>)

\* "1-(2-3)-4": the brackets group against the left-to-right order
Wit_C19_Brackets ==
    /\ op = "parse"
    /\ arg[1] = Chain(<<"-", "-", "-">>, 0, TRUE, FALSE)
    /\ ret.tag = "Ok"
    /\ Strip(ret.val) =
        EBinaryExpr(
            EBinaryExpr(ENum("1"), "Subtract",
                        EBinaryExpr(ENum("2"), "Subtract", ENum("3"))),
            "Subtract", ENum("4"))

\* the message main_loop took in this step is a Response or a Notification
QuietStep == msg'.tag = "Some" /\ msg'.val.kind \in {"Response", "Notification"}

NoItems_completion == Some(None)

\* C22: a Message::Notification or Message::Response leaves the state as it
\* is, sends nothing and runs no handler (handle_new_content is reached only
\* through a Message::Request), so while no request has arrived the state is
\* None and completion yields no items.
Thm_C22_QuietMessages ==
    /\ [][QuietStep => state' = state /\ reply' = <<>> /\ invoked' = <<>>]_vars
    /\ [](loop # "off" /\ ~requested =>
            state = None /\ completion_handler(state) = NoItems_completion)
    /\ [](invoked # <<>> => msg.tag = "Some" /\ msg.val.kind = "Request")

\* a textDocument/didOpen notification with a text that compiles was the
\* last message, no request came before it, and nothing is stored
Wit_C22_QuietMessages ==
    /\ loop = "running"
    /\ ~requested
    /\ msg = Some(Notification(M_DidOpen,
                OpenParams(SourceOf(<<VarDef("x", ENum("1"), FALSE)>>))))
    /\ state = None
    /\ reply = <<>>
    /\ completion_handler(state) = NoItems_completion

\* a notification was the last message after a request stored a text: the
\* stored state is kept
Wit_C22_KeptState ==
    /\ loop = "running"
    /\ requested
    /\ msg.tag = "Some"
    /\ msg.val.kind = "Notification"
    /\ state # None
    /\ reply = <<>>

(***************************************************************************)
(* Claims about the request dispatcher, checked under SpecDispatch         *)
(***************************************************************************)
\* the positions among the first k calls of the chain whose METHOD is the
\* request's method
Matching(req, chain, k) == {j \in 1..k : chain[j].method = req.method}

FirstMatching(req, chain, k) ==
    CHOOSE j \in Matching(req, chain, k) :
        \A i \in Matching(req, chain, k) : j <= i

\* what the dispatcher holds after k calls of the chain on the request
DispatchedRight(req, chain, st, r) ==
    IF Matching(req, chain, r.k) = {}
        THEN /\ r.fired = <<>>
             /\ r.d.invoked = <<>>
             /\ ~r.d.handled
             /\ r.d.resp = None
             /\ r.d.state = st
        ELSE /\ r.fired = <<FirstMatching(req, chain, r.k)>>
             /\ r.d.invoked = <<chain[FirstMatching(req, chain, r.k)].h>>
             /\ r.d.handled
             /\ IF chain[FirstMatching(req, chain, r.k)].kind = "on"
                    THEN r.d.resp.tag = "Some" /\ r.d.resp.val.id = req.id
                    ELSE r.d.resp = None

\* what handle_request returns: a response with the request's id for the two
\* methods registered with on, nothing for every other method
HandleRequestRight(req, st) ==
    IF req.method \in {M_Initialize, M_Completion}
        THEN /\ handle_request(st, req).resp.tag = "Some"
             /\ handle_request(st, req).resp.val.id = req.id
        ELSE handle_request(st, req).resp = None

\* C21: of a chain of on / on_notif calls only the first whose METHOD is the
\* request's method runs its handler; handled never goes back to false;
\* resp is set only by an on call and carries the request's id, so
\* handle_request gives no response for a request matched by on_notif or by
\* nothing, and one response at most.
Thm_C21_FirstMatchOnly ==
    /\ [](op = "dispatch" =>
            /\ DispatchedRight(arg[1], arg[2], arg[3], ret)
            /\ Len(ret.fired) <= 1
            /\ HandleRequestRight(arg[1], arg[3]))
    /\ [][op = "dispatch" =>
            /\ ret.d.handled => ret'.d.handled
            /\ ret.d.resp # None => ret'.d.resp = ret.d.resp]_vars

\* a chain with two calls for the request's method after one for another
\* method: the second call ran its handler, the third did not
Wit_C21_FirstMatchOnly ==
    /\ op = "dispatch"
    /\ ret.k = 3
    /\ arg[2][1].method # arg[1].method
    /\ arg[2][2].method = arg[1].method
    /\ arg[2][3].method = arg[1].method
    /\ ret.fired = <<2>>
    /\ ret.d.resp # None

\* the chain of handle_request on a didOpen request: a handler ran, the
\* state changed and there is no response
Wit_C21_NotifMatched ==
    /\ op = "dispatch"
    /\ arg[2] = HandleRequestChain
    /\ ret.k = 4
    /\ arg[1].method = M_DidOpen
    /\ ret.fired = <<2>>
    /\ ret.d.resp = None
    /\ ret.d.state # arg[3]

====
